---- MODULE Spec2Model ----
(***************************************************************************)
(* Request authentication and tenant-scoped authorization of the           *)
(* project-management backend: middleware/auth.js (verifyToken,            *)
(* checkPermission, checkAnyPermission), the credential tables it reads    *)
(* and routes mounted behind it.                                           *)
(*                                                                         *)
(* A request is a process.  Its steps are the pieces of code between two   *)
(* awaits: JavaScript runs each piece without interruption, and other      *)
(* requests and the clock may interleave at every await on the database.   *)
(***************************************************************************)
EXTENDS Integers, Sequences, FiniteSets, TLC

VARIABLES
    users,             \* table users: rows [id, tenant_id, email, status]
    tenants,           \* table tenants: rows [id, status]
    roles,             \* table roles: rows [id, tenant_id, name, is_system_role]
    role_permissions,  \* table role_permissions: rows [role_id, permission_id]
    user_roles,        \* table user_roles: rows [user_id, role_id]
    audit_logs,        \* table audit_logs: rows [tenant_id, user_id, action, entity_id, roleId]
    user_sessions,     \* table user_sessions: rows [id, user_id, refresh_token, is_active, expires_at]
    now,               \* the server clock, in token-lifetime units
    reqs,              \* the requests in flight, one record per request slot
    anon,              \* the requests in flight on the routes mounted without verifyToken
    loggedOut,         \* history: the refresh tokens whose POST /auth/logout has completed
    tasks,             \* table tasks: rows [id, tenant_id, project_id]
    task_assignments,  \* table task_assignments: rows [task_id, user_id]
    task_comments,     \* table task_comments: rows [id, task_id, user_id]
    task_attachments,  \* table task_attachments: rows [id, task_id, user_id]
    task_dependencies, \* table task_dependencies: rows [task_id, depends_on_task_id]
    notifications,     \* table notifications: rows [tenant_id, user_id, taskId]
    time_entries       \* table time_entries: rows [id, tenant_id, user_id, task_id, running]

vars == <<users, tenants, roles, role_permissions, user_roles, audit_logs, user_sessions,
          now, reqs, anon, loggedOut, tasks, task_assignments, task_comments,
          task_attachments, task_dependencies, notifications, time_entries>>

\* The tables of the task and time routes
work == <<tasks, task_assignments, task_comments, task_attachments, task_dependencies,
          notifications, time_entries>>

store == <<users, tenants, roles, role_permissions, user_roles, audit_logs, user_sessions>>

-----------------------------------------------------------------------------
(* Bounds *)

\* Number of request slots (requests that can be in flight together).
NumReqs == 1

\* Last instant of the clock.
MaxNow == 1

Reqs == 1..NumReqs

\* Number of request slots of the routes mounted without verifyToken
\* (register, login, refresh-token).
NumAnon == 1

Anons == 1..NumAnon

-----------------------------------------------------------------------------
(* The credential tables *)

\* status ENUM of tenants and of users (schema.sql)
TenantStatus == {"active", "suspended", "deleted"}

UserStatus == {"active", "inactive", "invited"}

\* Rows of table permissions used here, with the ids the schema's INSERT
\* gives them (AUTO_INCREMENT from 1, in the order of the VALUES list).
permissions ==
    { [id |-> 1,  name |-> "users.view"],
      [id |-> 3,  name |-> "users.edit"],
      [id |-> 18, name |-> "settings.view"] }

\* Ids of the seeded rows.  Users 1 and 2 belong to tenant 1, user 3 to
\* tenant 2; user id 4 has no row (an account of tenant 2 that was removed
\* after its tokens were issued).
TenantIds == {1, 2}

UserIds == {1, 2, 3}

\* userId values carried by issued tokens: the seeded accounts and id 4
TokenUserIds == UserIds \cup {4}

\* tenant_id of the account a token was issued for (users never change
\* tenant): the seeded accounts, then the accounts that register, each with a
\* tenant of its own (tenant 3 for account 5, and so on).
HomeTenant(u) == IF u \in {1, 2} THEN 1 ELSE IF u \in {3, 4} THEN 2 ELSE u - 2

\* roles as POST /auth/register and POST /roles leave them: tenant 1 has its
\* system role Admin (1) and two custom roles (2, 4), tenant 2 its system
\* role Member (3).
SeedRoles ==
    { [id |-> 1, tenant_id |-> 1, name |-> "Admin", is_system_role |-> TRUE],
      [id |-> 2, tenant_id |-> 1, name |-> "Editor", is_system_role |-> FALSE],
      [id |-> 3, tenant_id |-> 2, name |-> "Member", is_system_role |-> TRUE],
      [id |-> 4, tenant_id |-> 1, name |-> "Auditor", is_system_role |-> FALSE] }

\* Admin holds every permission (register), Member none (register inserts
\* no role_permissions row for it); the custom roles overlap in users.view.
SeedRolePermissions ==
    { [role_id |-> 1, permission_id |-> p.id] : p \in permissions }
    \cup { [role_id |-> 2, permission_id |-> 1], [role_id |-> 2, permission_id |-> 3] }
    \cup { [role_id |-> 4, permission_id |-> 1], [role_id |-> 4, permission_id |-> 18] }

\* user_roles of the accounts 1 and 3; account 2 holds `held`, a set of
\* custom roles of its tenant (the table is many-to-many).
SeedUserRoles(held) ==
    { [user_id |-> 1, role_id |-> 1], [user_id |-> 3, role_id |-> 3] }
    \cup { [user_id |-> 2, role_id |-> k] : k \in held }

\* Tasks in the table: task 1 of tenant 1, tasks 2 and 3 of tenant 2
SeedTasks ==
    { [id |-> 1, tenant_id |-> 1, project_id |-> 1, actual_hours |-> 0],
      [id |-> 2, tenant_id |-> 2, project_id |-> 2, actual_hours |-> 0],
      [id |-> 3, tenant_id |-> 2, project_id |-> 2, actual_hours |-> 0] }

\* The tables of the task and time routes when the run starts: task 2 is
\* assigned to account 3, nobody has commented, and no timer runs.
SeedWork ==
    /\ tasks = SeedTasks
    /\ task_assignments = { [task_id |-> 2, user_id |-> 3] }
    /\ task_comments = {}
    /\ task_attachments = {}
    /\ task_dependencies = {}
    /\ notifications = {}
    /\ time_entries = {}

-----------------------------------------------------------------------------
(* Tokens and the Authorization header *)

\* A string that can stand in the Authorization header where the token is
\* expected.  form: "jwt" (three well-formed segments), "garbage" (any other
\* non-empty text), "empty" (the empty string), "undefined" (no such part).
\* key: the secret a jwt is signed with: "access" (JWT_SECRET), "refresh"
\* (JWT_REFRESH_SECRET) or "foreign" (a secret the server does not hold).
Part(form, key, exp, userId, tenantId) ==
    [form |-> form, key |-> key, exp |-> exp, userId |-> userId, tenantId |-> tenantId]

Undefined == Part("undefined", "none", 0, 0, 0)

EmptyString == Part("empty", "none", 0, 0, 0)

Garbage == Part("garbage", "none", 0, 0, 0)

Bearer == Part("garbage", "scheme", 0, 0, 0)

\* jwt.sign({ userId, tenantId }, secret, { expiresIn }): exp is the instant
\* from which the token counts as expired: 1 passes within the clock's
\* range, MaxNow + 1 does not.
Jwt(key, exp, userId) == Part("jwt", key, exp, userId, HomeTenant(userId))

\* jwt.sign(payload, secret, { expiresIn }) at instant `clock`: the token
\* carries the payload and exp = iat + expiresIn, and two calls with the same
\* payload, secret and lifetime at the same instant give the same string.
jwt_sign(payload, key, clock, expiresIn) ==
    Part("jwt", key, clock + expiresIn, payload.userId, payload.tenantId)

\* The clock counts in the resolution of iat and exp; the lifetimes are
\* scaled down to its range.  expiresIn of an access token ('1h'):
AccessLife == 1

\* expiresIn of a refresh token and lifetime of its session row ('7d'): it
\* outlasts the clock's range
RefreshLife == MaxNow + 1

\* Access tokens the server issued: a long-lived one for every account, and
\* a short-lived one for account 1.
AccessTokens ==
    { Jwt("access", MaxNow + 1, u) : u \in TokenUserIds }
    \cup { Jwt("access", 1, u) : u \in {1} }

\* Tokens not signed with JWT_SECRET: a refresh token the server issued, and
\* a token forged under another secret, which expires at instant 1.
OtherTokens ==
    { Jwt("refresh", MaxNow + 1, u) : u \in {1} }
    \cup { Jwt("foreign", 1, u) : u \in {1} }

PresentedTokens == AccessTokens \cup OtherTokens \cup {Garbage}

\* Values of req.headers.authorization: absent, or the string given by its
\* parts between single spaces.
Header(present, parts) == [present |-> present, parts |-> parts]

Headers ==
    { Header(FALSE, <<>>),
      Header(TRUE, <<Bearer>>),
      Header(TRUE, <<Bearer, EmptyString>>),
      Header(TRUE, <<Bearer, EmptyString, Garbage>>) }
    \cup { Header(TRUE, <<Bearer, t>>) : t \in PresentedTokens }

\* ExtractToken with the index off by one: split(' ')[0]
MutExtractTokenFirstPart(authorization) ==
    IF ~authorization.present THEN Undefined
    ELSE IF Len(authorization.parts) >= 1 THEN authorization.parts[1]
    ELSE Undefined

\* req.headers.authorization?.split(' ')[1]
ExtractToken(authorization) ==
    IF ~authorization.present THEN Undefined
    ELSE IF Len(authorization.parts) >= 2 THEN authorization.parts[2]
    ELSE Undefined

\* !token
Falsy(token) == token.form \in {"undefined", "empty"}

NoPayload == [userId |-> 0, tenantId |-> 0]

\* jwt.verify(token, secret) of jsonwebtoken: decode (throws
\* JsonWebTokenError when malformed), check the signature (throws
\* JsonWebTokenError), then check exp against the clock (throws
\* TokenExpiredError); name "" stands for a normal return.
jwt_verify(token, secret, clock) ==
    IF token.form # "jwt"
        THEN [name |-> "JsonWebTokenError", payload |-> NoPayload]
    ELSE IF token.key # secret
        THEN [name |-> "JsonWebTokenError", payload |-> NoPayload]
    ELSE IF clock >= token.exp
        THEN [name |-> "TokenExpiredError", payload |-> NoPayload]
    ELSE [name |-> "", payload |-> [userId |-> token.userId, tenantId |-> token.tenantId]]

-----------------------------------------------------------------------------
(* Responses *)

\* The "required" member of a 403 body: absent, one permission name
\* (checkPermission) or the list of names (checkAnyPermission).
NoRequired == [kind |-> "absent", names |-> <<>>]

RequiredName(permission) == [kind |-> "name", names |-> <<permission>>]

RequiredList(perms) == [kind |-> "list", names |-> perms]

\* res.status(status).json({ error, message, required }); data is the id of
\* the row a handler returns.
Response(status, error, message, required, data) ==
    [status |-> status, error |-> error, message |-> message,
     required |-> required, data |-> data]

ErrorResponse(status, error) == Response(status, error, "", NoRequired, 0)

NoResponse == Response(0, "", "", NoRequired, 0)

-----------------------------------------------------------------------------
(* Routes behind the gate *)

\* A permission gate mounted on a route: checkPermission(name) or
\* checkAnyPermission(...names).
Gate(kind, names) == [kind |-> kind, names |-> names]

\* router.use(verifyToken) comes first on every router; then the route's
\* own gates, then its handler.
RouteGates(route) ==
    CASE route = "GET /tenants/current"     -> <<>>
      [] route = "GET /tenants/audit-logs"  -> << Gate("permission", <<"settings.view">>) >>
      [] route = "GET /users/stats/summary" -> << Gate("permission", <<"users.view">>) >>
      [] route = "PUT /users/:id/role"      -> << Gate("permission", <<"users.edit">>) >>
      [] route = "PUT /users/:id/status"    -> << Gate("permission", <<"users.edit">>) >>
      [] route = "POST /roles"              -> << Gate("permission", <<"users.edit">>) >>
      [] route = "PUT /roles/:id"           -> << Gate("permission", <<"users.edit">>) >>
      [] route = "POST /auth/logout"        -> <<>>
      [] route = "DELETE /auth/sessions/:id" -> <<>>
      [] route = "POST /tasks/:id/assign"   -> << Gate("permission", <<"tasks.edit">>) >>
      [] route = "POST /tasks/:id/comments" -> << Gate("permission", <<"tasks.view">>) >>
      [] route = "POST /tasks/:id/attachments" -> << Gate("permission", <<"tasks.view">>) >>
      [] route = "POST /tasks/:id/dependencies" -> << Gate("permission", <<"tasks.edit">>) >>
      [] route = "POST /time/start"         -> << Gate("permission", <<"time.create">>) >>
      [] route = "POST /time/stop"          -> << Gate("permission", <<"time.create">>) >>

\* Routes that only read the store
ReadRoutes == {"GET /tenants/current", "GET /tenants/audit-logs", "GET /users/stats/summary"}

NoParams == [id |-> 0, roleId |-> 0]

\* req.body of the routes that read refreshToken, status, name,
\* permissionIds, userIds, dependsOnTaskId or taskId (name "": the body has
\* no name), and req.file of the upload route (file: multer has stored one)
NoBody ==
    [refreshToken |-> Undefined, status |-> "", name |-> "", permissionIds |-> <<>>,
     userIds |-> <<>>, dependsOnTaskId |-> 0, taskId |-> 0, file |-> FALSE]

\* req.params.id and req.body.roleId of PUT /users/:id/role: every account of
\* the model, and a role of tenant 1 or of tenant 2.
RoleParams == { [id |-> i, roleId |-> k] : i \in UserIds, k \in {3, 4} }

-----------------------------------------------------------------------------
(* Requests *)

NoUserRow == [id |-> 0, tenant_id |-> 0, tenant_status |-> "", status |-> ""]

\* req.user before verifyToken has set it
NoPrincipal == [id |-> 0, tenantId |-> 0, permissions |-> {}, resolved |-> FALSE]

\* A request: the position of its code (pc), what came in (headers, route,
\* params, body), the locals of the role handlers (insertId: result.insertId;
\* rest: the ids their loop has still to insert), the locals of the timer
\* handlers (projectId: tasks[0].project_id; entryId: entries[0].id;
\* duration: durationMinutes), the permission gates its route mounts (gates),
\* the locals of verifyToken (token, decoded, dbUser), req.user,
\* the index of the route layer reached (layer), the response sent (res),
\* and what has happened so far: calls of jwt.verify (verified), store
\* queries issued by verifyToken (queries), whether one of them threw
\* (lookupFailed), calls of next() by verifyToken (nextCalls), responses
\* sent (sent), whether the handler body has started (handlerRan).
IdleRequest ==
    [pc |-> "idle", headers |-> Header(FALSE, <<>>), route |-> "", params |-> NoParams,
     body |-> NoBody, gates |-> <<>>, token |-> Undefined, decoded |-> NoPayload, dbUser |-> NoUserRow,
     user |-> NoPrincipal, layer |-> 0, insertId |-> 0, rest |-> <<>>, projectId |-> 0,
     entryId |-> 0, duration |-> 0, res |-> NoResponse,
     verified |-> 0, queries |-> 0, lookupFailed |-> FALSE, nextCalls |-> 0, sent |-> 0,
     handlerRan |-> FALSE]

NewRequest(headers, route, params) ==
    [IdleRequest EXCEPT !.headers = headers, !.route = route, !.params = params,
                        !.gates = RouteGates(route)]

\* return res.status(..).json(..): the response goes out and the request ends
Send(q, response) == [q EXCEPT !.pc = "done", !.res = response, !.sent = @ + 1]

\* CallNext on a route mounted without its gates
MutCallNextSkipsGates(q) == [q EXCEPT !.pc = "handler", !.layer = Len(q.gates) + 1]

\* next(): Express runs the next layer of the route, a gate or the handler
CallNext(q) ==
    IF q.layer < Len(q.gates)
        THEN [q EXCEPT !.pc = "gate", !.layer = @ + 1]
        ELSE [q EXCEPT !.pc = "handler", !.layer = @ + 1]

-----------------------------------------------------------------------------
(* Requests on the routes mounted without verifyToken *)

\* res.status(status).json({ error, accessToken, refreshToken }) of
\* routes/auth.js
AuthResponse(status, error, accessToken, refreshToken) ==
    [status |-> status, error |-> error, accessToken |-> accessToken,
     refreshToken |-> refreshToken]

AuthError(status, error) == AuthResponse(status, error, Undefined, Undefined)

NoAuthResponse == AuthResponse(0, "", Undefined, Undefined)

\* A request to POST /auth/login, /auth/refresh-token or /auth/register: its
\* position (pc) and route, its body (email: an address, numbered; the seeded
\* account i has address i, and address 0 is free; passwordValid: what
\* bcrypt.compare will answer; refreshToken), the locals of the handler
\* (decoded, user, accessToken, refreshToken, expiresAt) and the response.
IdleAnon ==
    [pc |-> "idle", route |-> "",
     body |-> [email |-> 0, passwordValid |-> FALSE, refreshToken |-> Undefined],
     decoded |-> NoPayload, user |-> NoUserRow,
     accessToken |-> Undefined, refreshToken |-> Undefined, expiresAt |-> 0,
     res |-> NoAuthResponse]

AnonSend(q, response) == [q EXCEPT !.pc = "done", !.res = response]

-----------------------------------------------------------------------------
(* middleware/auth.js *)

\* verifyTokenCatch without its TokenExpiredError branch
MutCatchNoExpiredBranch(q, name) ==
    IF name = "JsonWebTokenError" THEN Send(q, ErrorResponse(401, "Invalid token"))
    ELSE IF name = "TokenExpiredError" THEN Send(q, ErrorResponse(401, "Invalid token"))
    ELSE Send(q, ErrorResponse(500, "Authentication failed"))

\* verifyTokenCatch answering every error alike
MutCatchAll401(q, name) ==
    IF name = "TokenExpiredError" THEN Send(q, ErrorResponse(401, "Token expired"))
    ELSE Send(q, ErrorResponse(401, "Invalid token"))

\* catch (error) of verifyToken
verifyTokenCatch(q, name) ==
    IF name = "JsonWebTokenError" THEN Send(q, ErrorResponse(401, "Invalid token"))
    ELSE IF name = "TokenExpiredError" THEN Send(q, ErrorResponse(401, "Token expired"))
    ELSE Send(q, ErrorResponse(500, "Authentication failed"))

\* verifyTokenBegin reading the payload with jwt.decode and querying before
\* it verifies
MutBeginDecodeOnly(q, clock) ==
    LET token == ExtractToken(q.headers)
        q1    == [q EXCEPT !.token = token]
    IN  IF Falsy(token) THEN Send(q1, ErrorResponse(401, "Access token required"))
        ELSE [q1 EXCEPT !.decoded = [userId |-> token.userId, tenantId |-> token.tenantId],
                        !.queries = @ + 1, !.pc = "userQuery"]

\* verifyToken up to its first await: extract the token, verify it, issue
\* the user query.
verifyTokenBegin(q, clock) ==
    LET token == ExtractToken(q.headers)
        v     == jwt_verify(token, "access", clock)
        q1    == [q EXCEPT !.token = token]
        q2    == [q1 EXCEPT !.verified = @ + 1]
    IN  IF Falsy(token) THEN Send(q1, ErrorResponse(401, "Access token required"))
        ELSE IF v.name # "" THEN verifyTokenCatch(q2, v.name)
        ELSE [q2 EXCEPT !.decoded = v.payload, !.queries = @ + 1, !.pc = "userQuery"]

\* SelectActiveUser without AND u.status = 'active'
MutSelectUserAnyStatus(userId) ==
    { [id |-> x[1].id, tenant_id |-> x[2].id, tenant_status |-> x[2].status,
       status |-> x[1].status] :
        x \in { y \in users \X tenants : y[1].tenant_id = y[2].id /\ y[1].id = userId } }

\* SelectActiveUser joined with the active sessions of the user
MutSelectUserWithActiveSession(userId) ==
    { [id |-> x[1].id, tenant_id |-> x[2].id, tenant_status |-> x[2].status,
       status |-> x[1].status] :
        x \in { y \in users \X tenants :
                  /\ y[1].tenant_id = y[2].id
                  /\ y[1].id = userId
                  /\ y[1].status = "active"
                  /\ \E z \in user_sessions : z.user_id = userId /\ z.is_active } }

\* SELECT u.*, t.id as tenant_id, t.name as tenant_name, t.status as tenant_status
\* FROM users u JOIN tenants t ON u.tenant_id = t.id
\* WHERE u.id = ? AND u.status = 'active'
SelectActiveUser(userId) ==
    { [id |-> x[1].id, tenant_id |-> x[2].id, tenant_status |-> x[2].status,
       status |-> x[1].status] :
        x \in { y \in users \X tenants :
                  /\ y[1].tenant_id = y[2].id
                  /\ y[1].id = userId
                  /\ y[1].status = "active" } }

\* verifyTokenUser refusing only tenant_status === 'suspended'
MutUserOnlySuspended(q, ok, rows) ==
    IF ~ok THEN Send([q EXCEPT !.lookupFailed = TRUE], ErrorResponse(500, "Authentication failed"))
    ELSE IF rows = {} THEN Send(q, ErrorResponse(401, "User not found or inactive"))
    ELSE LET user == CHOOSE row \in rows : TRUE
         IN  IF user.tenant_status = "suspended"
                 THEN Send([q EXCEPT !.dbUser = user],
                           ErrorResponse(403, "Organization is suspended"))
                 ELSE [q EXCEPT !.dbUser = user, !.queries = @ + 1, !.pc = "permQuery"]

\* verifyTokenUser without the return in front of its 403: the response goes
\* out and the function goes on to the permission query
MutUserSuspendedFallsThrough(q, ok, rows) ==
    IF ~ok THEN verifyTokenCatch([q EXCEPT !.lookupFailed = TRUE], "Error")
    ELSE IF rows = {} THEN Send(q, ErrorResponse(401, "User not found or inactive"))
    ELSE LET user == CHOOSE row \in rows : TRUE
         IN  IF user.tenant_status # "active"
                 THEN [q EXCEPT !.dbUser = user, !.queries = @ + 1, !.pc = "permQuery",
                                !.res = ErrorResponse(403, "Organization is suspended"),
                                !.sent = @ + 1]
                 ELSE [q EXCEPT !.dbUser = user, !.queries = @ + 1, !.pc = "permQuery"]

\* verifyToken between its two awaits: the user query has returned `rows`,
\* or has thrown (ok = FALSE).
verifyTokenUser(q, ok, rows) ==
    IF ~ok THEN verifyTokenCatch([q EXCEPT !.lookupFailed = TRUE], "Error")
    ELSE IF rows = {} THEN Send(q, ErrorResponse(401, "User not found or inactive"))
    ELSE LET user == CHOOSE row \in rows : TRUE
         IN  IF user.tenant_status # "active"
                 THEN Send([q EXCEPT !.dbUser = user],
                           ErrorResponse(403, "Organization is suspended"))
                 ELSE [q EXCEPT !.dbUser = user, !.queries = @ + 1, !.pc = "permQuery"]

\* SelectPermissionNames without WHERE ur.user_id = ?
MutSelectPermissionsOfAnyUser(userId) ==
    { x[1].name :
        x \in { y \in permissions \X role_permissions \X user_roles :
                  /\ y[1].id = y[2].permission_id
                  /\ y[2].role_id = y[3].role_id } }

\* SelectPermissionNames answering from the rows the tables held at start
MutSelectPermissionNamesAtStart(userId) ==
    { x[1].name :
        x \in { y \in permissions \X SeedRolePermissions \X SeedUserRoles({2}) :
                  /\ y[1].id = y[2].permission_id
                  /\ y[2].role_id = y[3].role_id
                  /\ y[3].user_id = userId } }

\* SELECT DISTINCT p.name FROM permissions p
\* JOIN role_permissions rp ON p.id = rp.permission_id
\* JOIN user_roles ur ON rp.role_id = ur.role_id
\* WHERE ur.user_id = ?
SelectPermissionNames(userId) ==
    { x[1].name :
        x \in { y \in permissions \X role_permissions \X user_roles :
                  /\ y[1].id = y[2].permission_id
                  /\ y[2].role_id = y[3].role_id
                  /\ y[3].user_id = userId } }

\* verifyToken after its second await: the permission query has returned
\* `names`, or has thrown; req.user is set and next() called.
verifyTokenPermissions(q, ok, names) ==
    IF ~ok THEN verifyTokenCatch([q EXCEPT !.lookupFailed = TRUE], "Error")
    ELSE CallNext([q EXCEPT !.user = [id |-> q.dbUser.id,
                                      tenantId |-> q.dbUser.tenant_id,
                                      permissions |-> names,
                                      resolved |-> TRUE],
                            !.nextCalls = @ + 1])

\* checkPermission letting through whoever holds any permission at all
MutCheckPermissionNonEmpty(permission, q) ==
    IF q.user.permissions = {}
        THEN Send(q, Response(403, "Insufficient permissions", "",
                              RequiredName(permission), 0))
        ELSE CallNext(q)

\* checkPermission(permission)(req, res, next)
checkPermission(permission, q) ==
    IF permission \notin q.user.permissions
        THEN Send(q, Response(403, "Insufficient permissions", "",
                              RequiredName(permission), 0))
        ELSE CallNext(q)

\* checkAnyPermission with every() in place of some()
MutCheckAnyAsEvery(perms, q) ==
    LET hasPermission == \A i \in 1..Len(perms) : perms[i] \in q.user.permissions
    IN  IF ~hasPermission
            THEN Send(q, Response(403, "Insufficient permissions", "",
                                  RequiredList(perms), 0))
            ELSE CallNext(q)

\* checkAnyPermission(...perms)(req, res, next)
checkAnyPermission(perms, q) ==
    LET hasPermission == \E i \in 1..Len(perms) : perms[i] \in q.user.permissions
    IN  IF ~hasPermission
            THEN Send(q, Response(403, "Insufficient permissions", "",
                                  RequiredList(perms), 0))
            ELSE CallNext(q)

\* The gate a route mounts, applied
RunGate(gate, q) ==
    IF gate.kind = "permission" THEN checkPermission(gate.names[1], q)
    ELSE checkAnyPermission(gate.names, q)

-----------------------------------------------------------------------------
(* Handlers *)

\* res.json(rows) of a handler that only reads: `rows` is what its query
\* returned; a query that throws (ok = FALSE) lands in the handler's catch.
\* GET /tenants/current answers 404 when its query finds no tenant.
readHandler(q, ok, rows) ==
    IF q.route = "GET /tenants/current"
        THEN IF ~ok THEN Send(q, ErrorResponse(500, "Failed to fetch organization"))
             ELSE IF rows = {} THEN Send(q, ErrorResponse(404, "Organization not found"))
             ELSE Send(q, Response(200, "", "", NoRequired, (CHOOSE t \in rows : TRUE).id))
    ELSE IF q.route = "GET /tenants/audit-logs"
        THEN IF ~ok THEN Send(q, ErrorResponse(500, "Failed to fetch audit logs"))
             ELSE Send(q, Response(200, "", "", NoRequired, Cardinality(rows)))
    ELSE IF ~ok THEN Send(q, ErrorResponse(500, "Failed to fetch statistics"))
         ELSE Send(q, Response(200, "", "", NoRequired, Cardinality(rows)))

\* The rows the query of a reading handler selects, all scoped by
\* req.user.tenantId
readRows(q) ==
    IF q.route = "GET /tenants/current" THEN { t \in tenants : t.id = q.user.tenantId }
    ELSE IF q.route = "GET /tenants/audit-logs"
        THEN { l \in audit_logs : l.tenant_id = q.user.tenantId }
    ELSE { u \in users : u.tenant_id = q.user.tenantId }

\* The handler body of a route up to its first await
handlerBegin(q) ==
    LET q1 == [q EXCEPT !.handlerRan = TRUE]
    IN  IF q.route = "PUT /users/:id/role"
            THEN IF q.params.id = q.user.id
                     THEN Send(q1, ErrorResponse(400, "Cannot change your own role"))
                     ELSE [q1 EXCEPT !.pc = "roleSelectUser"]
        ELSE IF q.route = "PUT /users/:id/status"
            THEN IF q.params.id = q.user.id
                     THEN Send(q1, ErrorResponse(400, "Cannot change your own status"))
                     ELSE [q1 EXCEPT !.pc = "statusSelectUser"]
        ELSE IF q.route = "POST /auth/logout"
            THEN IF Falsy(q.body.refreshToken)
                     THEN Send(q1, Response(200, "", "Logged out successfully", NoRequired, 0))
                     ELSE [q1 EXCEPT !.pc = "logoutUpdate"]
        ELSE IF q.route = "DELETE /auth/sessions/:id" THEN [q1 EXCEPT !.pc = "sessionUpdate"]
        ELSE IF q.route = "POST /roles" THEN [q1 EXCEPT !.pc = "createRole"]
        ELSE IF q.route = "PUT /roles/:id" THEN [q1 EXCEPT !.pc = "updateRoleSelect"]
        ELSE IF q.route = "POST /tasks/:id/assign" THEN [q1 EXCEPT !.pc = "assignDelete"]
        ELSE IF q.route = "POST /tasks/:id/comments" THEN [q1 EXCEPT !.pc = "commentInsert"]
        ELSE IF q.route = "POST /tasks/:id/attachments"
            THEN IF ~q.body.file
                     THEN Send(q1, ErrorResponse(400, "No file uploaded"))
                     ELSE [q1 EXCEPT !.pc = "attachmentInsert"]
        ELSE IF q.route = "POST /tasks/:id/dependencies"
            THEN [q1 EXCEPT !.pc = "dependencyInsert"]
        ELSE IF q.route = "POST /time/start" THEN [q1 EXCEPT !.pc = "startSelectActive"]
        ELSE IF q.route = "POST /time/stop" THEN [q1 EXCEPT !.pc = "stopSelect"]
        ELSE [q1 EXCEPT !.pc = "readSelect"]

\* catch (error) of PUT /users/:id/role
roleCatch(q) == Send(q, ErrorResponse(500, "Failed to update role"))

\* The row PUT /users/:id/role writes to audit_logs
RoleAuditRow(q) ==
    [tenant_id |-> q.user.tenantId, user_id |-> q.user.id, action |-> "update_role",
     entity_id |-> q.params.id, roleId |-> q.params.roleId]

-----------------------------------------------------------------------------
(* Initial states *)

\* The seeded tables.  Tenant 1 and its two accounts are active; the status
\* of tenant 2 and of its account range over their ENUMs, and account 2
\* holds any set of the custom roles of its tenant.
SeedStore ==
    /\ \E s \in TenantStatus :
           tenants = { [id |-> 1, status |-> "active"], [id |-> 2, status |-> s] }
    /\ \E s \in UserStatus :
           users = { [id |-> 1, tenant_id |-> 1, email |-> 1, status |-> "active"],
                     [id |-> 2, tenant_id |-> 1, email |-> 2, status |-> "active"],
                     [id |-> 3, tenant_id |-> 2, email |-> 3, status |-> s] }
    /\ roles = SeedRoles
    /\ role_permissions = SeedRolePermissions
    /\ \E held \in SUBSET {2, 4} : user_roles = SeedUserRoles(held)
    /\ audit_logs = {}

Init ==
    /\ SeedStore
    /\ user_sessions = {}
    /\ now = 0
    /\ reqs = [r \in Reqs |-> IdleRequest]
    /\ anon = [a \in Anons |-> IdleAnon]
    /\ loggedOut = {}
    /\ SeedWork

-----------------------------------------------------------------------------
(* Steps *)

\* A request for `route` arrives with `headers` and `params`, and
\* verifyToken runs to its first await.
Arrive(r, headers, route, params) ==
    /\ reqs[r].pc = "idle"
    /\ reqs' = [reqs EXCEPT ![r] = verifyTokenBegin(NewRequest(headers, route, params), now)]
    /\ UNCHANGED <<store, now, anon, loggedOut, work>>

\* A request for a reading route arrives.
Receive(r) ==
    \E headers \in Headers, route \in ReadRoutes : Arrive(r, headers, route, NoParams)

\* The store answers verifyToken's user query (or fails).
UserQuery(r) ==
    /\ reqs[r].pc = "userQuery"
    /\ \E ok \in BOOLEAN :
           reqs' = [reqs EXCEPT ![r] =
                       verifyTokenUser(reqs[r], ok, SelectActiveUser(reqs[r].decoded.userId))]
    /\ UNCHANGED <<store, now, anon, loggedOut, work>>

\* PermQuery writing an audit row for the request it admits
MutPermQueryAudits(r) ==
    /\ reqs[r].pc = "permQuery"
    /\ \E ok \in BOOLEAN :
           reqs' = [reqs EXCEPT ![r] =
                       verifyTokenPermissions(reqs[r], ok, SelectPermissionNames(reqs[r].dbUser.id))]
    /\ audit_logs' = audit_logs \cup {[tenant_id |-> reqs[r].dbUser.tenant_id,
                                        user_id |-> reqs[r].dbUser.id, action |-> "authenticate",
                                        entity_id |-> 0, roleId |-> 0]}
    /\ UNCHANGED <<users, tenants, roles, role_permissions, user_roles, user_sessions, now,
                   anon, loggedOut, work>>

\* The store answers verifyToken's permission query (or fails).
PermQuery(r) ==
    /\ reqs[r].pc = "permQuery"
    /\ \E ok \in BOOLEAN :
           reqs' = [reqs EXCEPT ![r] =
                       verifyTokenPermissions(reqs[r], ok, SelectPermissionNames(reqs[r].dbUser.id))]
    /\ UNCHANGED <<store, now, anon, loggedOut, work>>

\* The route's next permission gate runs.
GateStep(r) ==
    /\ reqs[r].pc = "gate"
    /\ reqs' = [reqs EXCEPT ![r] = RunGate(reqs[r].gates[reqs[r].layer], reqs[r])]
    /\ UNCHANGED <<store, now, anon, loggedOut, work>>

\* The route's handler starts.
HandlerBegin(r) ==
    /\ reqs[r].pc = "handler"
    /\ reqs' = [reqs EXCEPT ![r] = handlerBegin(reqs[r])]
    /\ UNCHANGED <<store, now, anon, loggedOut, work>>

\* The store answers the query of a reading handler (or fails).
ReadSelect(r) ==
    /\ reqs[r].pc = "readSelect"
    /\ \E ok \in BOOLEAN :
           reqs' = [reqs EXCEPT ![r] = readHandler(reqs[r], ok, readRows(reqs[r]))]
    /\ UNCHANGED <<store, now, anon, loggedOut, work>>

\* The response has gone out; the slot takes the next request.
Finish(r) ==
    /\ reqs[r].pc = "done"
    /\ reqs' = [reqs EXCEPT ![r] = IdleRequest]
    /\ UNCHANGED <<store, now, anon, loggedOut, work>>

\* Time passes.
Tick ==
    /\ now < MaxNow
    /\ now' = now + 1
    /\ UNCHANGED <<store, reqs, anon, loggedOut, work>>

Next ==
    \/ \E r \in Reqs : Receive(r)
    \/ \E r \in Reqs : UserQuery(r)
    \/ \E r \in Reqs : PermQuery(r)
    \/ \E r \in Reqs : GateStep(r)
    \/ \E r \in Reqs : HandlerBegin(r)
    \/ \E r \in Reqs : ReadSelect(r)
    \/ \E r \in Reqs : Finish(r)
    \/ Tick

\* Requests to the reading routes, over every seeded store
Spec == Init /\ [][Next]_vars

-----------------------------------------------------------------------------
(* The permission gates on their own *)

\* Names a gate can be mounted with: the permissions of the model and one
\* that no role of the model grants.
GateNames == { p.name : p \in permissions } \cup {"tasks.delete"}

\* Longest list of names given to checkAnyPermission
MaxGateNames == 2

NameLists == UNION { [1..n -> GateNames] : n \in 0..MaxGateNames }

GateInputs ==
    { Gate("permission", <<n>>) : n \in GateNames }
    \cup { Gate("any", l) : l \in NameLists }

\* A request that verifyToken has admitted as account `id` with the
\* permission set `perms`, about to enter `gate`.
AdmittedRequest(id, perms, gate) ==
    [IdleRequest EXCEPT !.pc = "gate", !.layer = 1, !.gates = <<gate>>,
                        !.headers = Header(TRUE, <<Bearer, Jwt("access", MaxNow + 1, id)>>),
                        !.token = Jwt("access", MaxNow + 1, id),
                        !.decoded = [userId |-> id, tenantId |-> HomeTenant(id)],
                        !.dbUser = [id |-> id, tenant_id |-> HomeTenant(id),
                                    tenant_status |-> "active", status |-> "active"],
                        !.user = [id |-> id, tenantId |-> HomeTenant(id),
                                  permissions |-> perms, resolved |-> TRUE],
                        !.verified = 1, !.queries = 2, !.nextCalls = 1]

\* Every permission set a principal can hold (custom roles take any set of
\* permissions), in front of every gate.
GatesInit ==
    /\ tenants = { [id |-> t, status |-> "active"] : t \in TenantIds }
    /\ users = { [id |-> u, tenant_id |-> HomeTenant(u), email |-> u, status |-> "active"] :
                   u \in UserIds }
    /\ roles = SeedRoles
    /\ role_permissions = SeedRolePermissions
    /\ user_roles = SeedUserRoles({2, 4})
    /\ audit_logs = {}
    /\ user_sessions = {}
    /\ anon = [a \in Anons |-> IdleAnon]
    /\ loggedOut = {}
    /\ SeedWork
    /\ now = 0
    /\ reqs \in [Reqs -> { AdmittedRequest(1, perms, gate) :
                             perms \in SUBSET { p.name : p \in permissions },
                             gate \in GateInputs }]

GatesNext == \E r \in Reqs : GateStep(r)

SpecGates == GatesInit /\ [][GatesNext]_vars

-----------------------------------------------------------------------------
(* PUT /users/:id/role behind the gate *)

\* The accounts that call the administration routes: the seeded ones, and
\* the first account that registers
AdminCallers == UserIds \cup {5}

\* RoleSelectRole without AND tenant_id = ?
MutRoleSelectRoleAnyTenant(r) ==
    /\ reqs[r].pc = "roleSelectRole"
    /\ \E ok \in BOOLEAN :
         LET q == reqs[r]
             rows == { k \in roles : k.id = q.params.roleId }
         IN  reqs' = [reqs EXCEPT ![r] =
                         IF ~ok THEN roleCatch(q)
                         ELSE IF rows = {} THEN Send(q, ErrorResponse(404, "Role not found"))
                         ELSE [q EXCEPT !.pc = "roleDelete"]]
    /\ UNCHANGED <<store, now, anon, loggedOut, work>>

\* A request for PUT /users/:id/role arrives with the access token of an
\* account.
ReceiveRole(r) ==
    \E u \in AdminCallers, params \in RoleParams :
        Arrive(r, Header(TRUE, <<Bearer, Jwt("access", MaxNow + 1, u)>>),
               "PUT /users/:id/role", params)

\* SELECT id FROM users WHERE id = ? AND tenant_id = ?
RoleSelectUser(r) ==
    /\ reqs[r].pc = "roleSelectUser"
    /\ \E ok \in BOOLEAN :
         LET q == reqs[r]
             rows == { u \in users : u.id = q.params.id /\ u.tenant_id = q.user.tenantId }
         IN  reqs' = [reqs EXCEPT ![r] =
                         IF ~ok THEN roleCatch(q)
                         ELSE IF rows = {} THEN Send(q, ErrorResponse(404, "User not found"))
                         ELSE [q EXCEPT !.pc = "roleSelectRole"]]
    /\ UNCHANGED <<store, now, anon, loggedOut, work>>

\* SELECT id FROM roles WHERE id = ? AND tenant_id = ?
RoleSelectRole(r) ==
    /\ reqs[r].pc = "roleSelectRole"
    /\ \E ok \in BOOLEAN :
         LET q == reqs[r]
             rows == { k \in roles : k.id = q.params.roleId /\ k.tenant_id = q.user.tenantId }
         IN  reqs' = [reqs EXCEPT ![r] =
                         IF ~ok THEN roleCatch(q)
                         ELSE IF rows = {} THEN Send(q, ErrorResponse(404, "Role not found"))
                         ELSE [q EXCEPT !.pc = "roleDelete"]]
    /\ UNCHANGED <<store, now, anon, loggedOut, work>>

\* DELETE FROM user_roles WHERE user_id = ?
RoleDelete(r) ==
    /\ reqs[r].pc = "roleDelete"
    /\ \E ok \in BOOLEAN :
         LET q == reqs[r]
         IN  IF ok
               THEN /\ user_roles' = { ur \in user_roles : ur.user_id # q.params.id }
                    /\ reqs' = [reqs EXCEPT ![r] = [q EXCEPT !.pc = "roleInsert"]]
               ELSE /\ user_roles' = user_roles
                    /\ reqs' = [reqs EXCEPT ![r] = roleCatch(q)]
    /\ UNCHANGED <<users, tenants, roles, role_permissions, audit_logs, user_sessions, now, anon, loggedOut,
                   work>>

\* INSERT INTO user_roles (user_id, role_id) VALUES (?, ?); the store refuses
\* a duplicate primary key and a dangling foreign key.
RoleInsert(r) ==
    /\ reqs[r].pc = "roleInsert"
    /\ \E ok \in BOOLEAN :
         LET q   == reqs[r]
             row == [user_id |-> q.params.id, role_id |-> q.params.roleId]
             accepted == /\ ok
                         /\ row \notin user_roles
                         /\ \E u \in users : u.id = row.user_id
                         /\ \E k \in roles : k.id = row.role_id
         IN  IF accepted
               THEN /\ user_roles' = user_roles \cup {row}
                    /\ reqs' = [reqs EXCEPT ![r] = [q EXCEPT !.pc = "roleAudit"]]
               ELSE /\ user_roles' = user_roles
                    /\ reqs' = [reqs EXCEPT ![r] = roleCatch(q)]
    /\ UNCHANGED <<users, tenants, roles, role_permissions, audit_logs, user_sessions, now, anon, loggedOut,
                   work>>

\* INSERT INTO audit_logs, then the 200 response
RoleAudit(r) ==
    /\ reqs[r].pc = "roleAudit"
    /\ \E ok \in BOOLEAN :
         LET q == reqs[r]
         IN  IF ok
               THEN /\ audit_logs' = audit_logs \cup {RoleAuditRow(q)}
                    /\ reqs' = [reqs EXCEPT ![r] =
                                   Send(q, Response(200, "", "User role updated successfully",
                                                    NoRequired, 0))]
               ELSE /\ audit_logs' = audit_logs
                    /\ reqs' = [reqs EXCEPT ![r] = roleCatch(q)]
    /\ UNCHANGED <<users, tenants, roles, role_permissions, user_roles, user_sessions, now, anon, loggedOut,
                   work>>


-----------------------------------------------------------------------------
(* Sessions: routes/auth.js and PUT /users/:id/status *)

\* UPDATE user_sessions SET is_active = FALSE WHERE refresh_token = ?
UpdateSessionsByToken(sessions, token) ==
    { IF x.refresh_token = token THEN [x EXCEPT !.is_active = FALSE] ELSE x : x \in sessions }

\* UpdateSessionById without AND user_id = ?
MutUpdateSessionByIdOnly(sessions, id, userId) ==
    { IF x.id = id THEN [x EXCEPT !.is_active = FALSE] ELSE x : x \in sessions }

\* UPDATE user_sessions SET is_active = FALSE WHERE id = ? AND user_id = ?
UpdateSessionById(sessions, id, userId) ==
    { IF x.id = id /\ x.user_id = userId THEN [x EXCEPT !.is_active = FALSE] ELSE x :
        x \in sessions }

\* UPDATE user_sessions SET is_active = FALSE WHERE user_id = ?
UpdateSessionsOfUser(sessions, userId) ==
    { IF x.user_id = userId THEN [x EXCEPT !.is_active = FALSE] ELSE x : x \in sessions }

\* SelectValidSessions without AND is_active = TRUE
MutSelectSessionsAnyFlag(token, clock) ==
    { x \in user_sessions : x.refresh_token = token /\ x.expires_at > clock }

\* SELECT * FROM user_sessions
\* WHERE refresh_token = ? AND is_active = TRUE AND expires_at > NOW()
SelectValidSessions(token, clock) ==
    { x \in user_sessions : x.refresh_token = token /\ x.is_active /\ x.expires_at > clock }

\* id INT PRIMARY KEY AUTO_INCREMENT of user_sessions (no row of the table
\* is deleted by the routes modelled)
NextSessionId == Cardinality(user_sessions) + 1

\* INSERT INTO user_sessions (user_id, refresh_token, ..., expires_at):
\* is_active takes its DEFAULT TRUE
NewSession(userId, token, expiresAt) ==
    [id |-> NextSessionId, user_id |-> userId, refresh_token |-> token,
     is_active |-> TRUE, expires_at |-> expiresAt]

\* Most rows user_sessions takes
MaxSessions == 3

\* LogoutUpdate answering 404 when its UPDATE has changed no row
MutLogoutUpdateNeedsActiveRow(r) ==
    /\ reqs[r].pc = "logoutUpdate"
    /\ \E ok \in BOOLEAN :
         LET q == reqs[r]
             hit == { x \in user_sessions : x.refresh_token = q.body.refreshToken /\ x.is_active }
         IN  IF ok
               THEN /\ user_sessions' = UpdateSessionsByToken(user_sessions, q.body.refreshToken)
                    /\ loggedOut' = loggedOut \cup {q.body.refreshToken}
                    /\ reqs' = [reqs EXCEPT ![r] =
                                   IF hit = {} THEN Send(q, ErrorResponse(404, "Session not found"))
                                   ELSE Send(q, Response(200, "", "Logged out successfully",
                                                         NoRequired, 0))]
               ELSE /\ UNCHANGED <<user_sessions, loggedOut>>
                    /\ reqs' = [reqs EXCEPT ![r] = Send(q, ErrorResponse(500, "Logout failed"))]
    /\ UNCHANGED <<users, tenants, roles, role_permissions, user_roles, audit_logs, now, anon,
                   work>>

\* POST /auth/logout: the UPDATE and the response
LogoutUpdate(r) ==
    /\ reqs[r].pc = "logoutUpdate"
    /\ \E ok \in BOOLEAN :
         LET q == reqs[r]
         IN  IF ok
               THEN /\ user_sessions' = UpdateSessionsByToken(user_sessions, q.body.refreshToken)
                    /\ loggedOut' = loggedOut \cup {q.body.refreshToken}
                    /\ reqs' = [reqs EXCEPT ![r] =
                                   Send(q, Response(200, "", "Logged out successfully",
                                                    NoRequired, 0))]
               ELSE /\ UNCHANGED <<user_sessions, loggedOut>>
                    /\ reqs' = [reqs EXCEPT ![r] = Send(q, ErrorResponse(500, "Logout failed"))]
    /\ UNCHANGED <<users, tenants, roles, role_permissions, user_roles, audit_logs, now, anon,
                   work>>

\* DELETE /auth/sessions/:id: the UPDATE and the response
SessionUpdate(r) ==
    /\ reqs[r].pc = "sessionUpdate"
    /\ \E ok \in BOOLEAN :
         LET q == reqs[r]
         IN  IF ok
               THEN /\ user_sessions' = UpdateSessionById(user_sessions, q.params.id, q.user.id)
                    /\ reqs' = [reqs EXCEPT ![r] =
                                   Send(q, Response(200, "", "Session terminated",
                                                    NoRequired, 0))]
               ELSE /\ UNCHANGED user_sessions
                    /\ reqs' = [reqs EXCEPT ![r] =
                                   Send(q, ErrorResponse(500, "Failed to terminate session"))]
    /\ UNCHANGED <<users, tenants, roles, role_permissions, user_roles, audit_logs, now, anon,
                   loggedOut, work>>

\* catch (error) of PUT /users/:id/status
statusCatch(q) == Send(q, ErrorResponse(500, "Failed to update status"))

\* The row PUT /users/:id/status writes to audit_logs (new_values holds the
\* status, no roleId)
StatusAuditRow(q) ==
    [tenant_id |-> q.user.tenantId, user_id |-> q.user.id, action |-> "update_status",
     entity_id |-> q.params.id, roleId |-> 0]

\* PUT /users/:id/status: SELECT id FROM users WHERE id = ? AND tenant_id = ?
StatusSelectUser(r) ==
    /\ reqs[r].pc = "statusSelectUser"
    /\ \E ok \in BOOLEAN :
         LET q == reqs[r]
             rows == { u \in users : u.id = q.params.id /\ u.tenant_id = q.user.tenantId }
         IN  reqs' = [reqs EXCEPT ![r] =
                         IF ~ok THEN statusCatch(q)
                         ELSE IF rows = {} THEN Send(q, ErrorResponse(404, "User not found"))
                         ELSE [q EXCEPT !.pc = "statusUpdate"]]
    /\ UNCHANGED <<store, now, anon, loggedOut, work>>

\* StatusUpdate giving the user's sessions back when the status is 'active'
MutStatusUpdateRestoresSessions(r) ==
    /\ reqs[r].pc = "statusUpdate"
    /\ \E ok \in BOOLEAN :
         LET q == reqs[r]
         IN  IF ok
               THEN /\ users' = { IF u.id = q.params.id /\ u.tenant_id = q.user.tenantId
                                      THEN [u EXCEPT !.status = q.body.status] ELSE u :
                                   u \in users }
                    /\ user_sessions' =
                          IF q.body.status = "active"
                              THEN { IF x.user_id = q.params.id
                                         THEN [x EXCEPT !.is_active = TRUE] ELSE x :
                                     x \in user_sessions }
                              ELSE user_sessions
                    /\ reqs' = [reqs EXCEPT ![r] =
                                   [q EXCEPT !.pc = IF q.body.status = "inactive"
                                                        THEN "statusRevoke" ELSE "statusAudit"]]
               ELSE /\ UNCHANGED <<users, user_sessions>>
                    /\ reqs' = [reqs EXCEPT ![r] = statusCatch(q)]
    /\ UNCHANGED <<tenants, roles, role_permissions, user_roles, audit_logs, now,
                   anon, loggedOut, work>>

\* PUT /users/:id/status: UPDATE users SET status = ? WHERE id = ? AND tenant_id = ?
StatusUpdate(r) ==
    /\ reqs[r].pc = "statusUpdate"
    /\ \E ok \in BOOLEAN :
         LET q == reqs[r]
         IN  IF ok
               THEN /\ users' = { IF u.id = q.params.id /\ u.tenant_id = q.user.tenantId
                                      THEN [u EXCEPT !.status = q.body.status] ELSE u :
                                   u \in users }
                    /\ reqs' = [reqs EXCEPT ![r] =
                                   [q EXCEPT !.pc = IF q.body.status = "inactive"
                                                        THEN "statusRevoke" ELSE "statusAudit"]]
               ELSE /\ UNCHANGED users
                    /\ reqs' = [reqs EXCEPT ![r] = statusCatch(q)]
    /\ UNCHANGED <<tenants, roles, role_permissions, user_roles, audit_logs, user_sessions, now,
                   anon, loggedOut, work>>

\* PUT /users/:id/status, when deactivating: the UPDATE of user_sessions
StatusRevoke(r) ==
    /\ reqs[r].pc = "statusRevoke"
    /\ \E ok \in BOOLEAN :
         LET q == reqs[r]
         IN  IF ok
               THEN /\ user_sessions' = UpdateSessionsOfUser(user_sessions, q.params.id)
                    /\ reqs' = [reqs EXCEPT ![r] = [q EXCEPT !.pc = "statusAudit"]]
               ELSE /\ UNCHANGED user_sessions
                    /\ reqs' = [reqs EXCEPT ![r] = statusCatch(q)]
    /\ UNCHANGED <<users, tenants, roles, role_permissions, user_roles, audit_logs, now, anon,
                   loggedOut, work>>

\* PUT /users/:id/status: INSERT INTO audit_logs, then the 200 response
StatusAudit(r) ==
    /\ reqs[r].pc = "statusAudit"
    /\ \E ok \in BOOLEAN :
         LET q == reqs[r]
         IN  IF ok
               THEN /\ audit_logs' = audit_logs \cup {StatusAuditRow(q)}
                    /\ reqs' = [reqs EXCEPT ![r] =
                                   Send(q, Response(200, "",
                                                    IF q.body.status = "active"
                                                        THEN "User activated successfully"
                                                        ELSE "User deactivated successfully",
                                                    NoRequired, 0))]
               ELSE /\ UNCHANGED audit_logs
                    /\ reqs' = [reqs EXCEPT ![r] = statusCatch(q)]
    /\ UNCHANGED <<users, tenants, roles, role_permissions, user_roles, user_sessions, now, anon,
                   loggedOut, work>>

\* SELECT u.*, t.status as tenant_status FROM users u JOIN tenants t
\* ON u.tenant_id = t.id WHERE u.email = ? AND u.status = 'active'
\* (an address is named by the id of the account it belongs to)
SelectActiveUserByEmail(email) ==
    { [id |-> x[1].id, tenant_id |-> x[2].id, tenant_status |-> x[2].status,
       status |-> x[1].status] :
        x \in { y \in users \X tenants :
                  /\ y[1].tenant_id = y[2].id
                  /\ y[1].email = email
                  /\ y[1].status = "active" } }

\* POST /auth/login after its first await: the user query has returned
loginUser(q, ok, rows) ==
    IF ~ok THEN AnonSend(q, AuthError(500, "Login failed"))
    ELSE IF rows = {} THEN AnonSend(q, AuthError(401, "Invalid credentials"))
    ELSE LET user == CHOOSE row \in rows : TRUE
         IN  IF user.tenant_status # "active"
                 THEN AnonSend(q, AuthError(403, "Organization is suspended"))
                 ELSE [q EXCEPT !.user = user, !.pc = "loginCompare"]

\* POST /auth/login after bcrypt.compare: both tokens are signed and the
\* INSERT of the session is issued
loginCompare(q, clock) ==
    IF ~q.body.passwordValid THEN AnonSend(q, AuthError(401, "Invalid credentials"))
    ELSE LET payload == [userId |-> q.user.id, tenantId |-> q.user.tenant_id]
         IN  [q EXCEPT !.accessToken = jwt_sign(payload, "access", clock, AccessLife),
                       !.refreshToken = jwt_sign(payload, "refresh", clock, RefreshLife),
                       !.expiresAt = clock + RefreshLife,
                       !.pc = "loginInsert"]

\* refreshBegin verifying with JWT_SECRET
MutRefreshBeginAccessSecret(q, clock) ==
    LET v == jwt_verify(q.body.refreshToken, "access", clock)
    IN  IF Falsy(q.body.refreshToken)
            THEN AnonSend(q, AuthError(400, "Refresh token required"))
        ELSE IF v.name \in {"JsonWebTokenError", "TokenExpiredError"}
            THEN AnonSend(q, AuthError(401, "Invalid refresh token"))
        ELSE [q EXCEPT !.decoded = v.payload, !.pc = "refreshSelect"]

\* POST /auth/refresh-token up to its await
refreshBegin(q, clock) ==
    LET v == jwt_verify(q.body.refreshToken, "refresh", clock)
    IN  IF Falsy(q.body.refreshToken)
            THEN AnonSend(q, AuthError(400, "Refresh token required"))
        ELSE IF v.name \in {"JsonWebTokenError", "TokenExpiredError"}
            THEN AnonSend(q, AuthError(401, "Invalid refresh token"))
        ELSE [q EXCEPT !.decoded = v.payload, !.pc = "refreshSelect"]

\* refreshSessions signing { userId } only
MutRefreshSignsUserOnly(q, ok, sessions, clock) ==
    IF ~ok THEN AnonSend(q, AuthError(500, "Token refresh failed"))
    ELSE IF sessions = {}
        THEN AnonSend(q, AuthError(401, "Invalid or expired refresh token"))
    ELSE AnonSend(q, AuthResponse(200, "",
                                  jwt_sign([userId |-> q.decoded.userId, tenantId |-> 0],
                                           "access", clock, AccessLife),
                                  Undefined))

\* refreshSessions refusing the users that verifyToken refuses
MutRefreshChecksUserAndTenant(q, ok, sessions, clock) ==
    IF ~ok THEN AnonSend(q, AuthError(500, "Token refresh failed"))
    ELSE IF sessions = {}
        THEN AnonSend(q, AuthError(401, "Invalid or expired refresh token"))
    ELSE IF SelectActiveUser(q.decoded.userId) = {}
        THEN AnonSend(q, AuthError(401, "Invalid or expired refresh token"))
    ELSE IF \E row \in SelectActiveUser(q.decoded.userId) : row.tenant_status # "active"
        THEN AnonSend(q, AuthError(403, "Organization is suspended"))
    ELSE AnonSend(q, AuthResponse(200, "",
                                  jwt_sign([userId |-> q.decoded.userId,
                                            tenantId |-> q.decoded.tenantId],
                                           "access", clock, AccessLife),
                                  Undefined))

\* POST /auth/refresh-token after its await: the session query has returned
refreshSessions(q, ok, sessions, clock) ==
    IF ~ok THEN AnonSend(q, AuthError(500, "Token refresh failed"))
    ELSE IF sessions = {}
        THEN AnonSend(q, AuthError(401, "Invalid or expired refresh token"))
    ELSE AnonSend(q, AuthResponse(200, "",
                                  jwt_sign([userId |-> q.decoded.userId,
                                            tenantId |-> q.decoded.tenantId],
                                           "access", clock, AccessLife),
                                  Undefined))

\* A request with `body` arrives at an anonymous route
AnonRequest(route, body) == [IdleAnon EXCEPT !.route = route, !.body = body]

\* Addresses given to POST /auth/login: that of account 2, and one that
\* belongs to no account
LoginEmails == {0, 2}

\* POST /auth/login arrives (its validation passes) and issues its query
LoginArrive(a) ==
    /\ anon[a].pc = "idle"
    /\ Cardinality(user_sessions) < MaxSessions
    /\ \E email \in LoginEmails, valid \in BOOLEAN :
           anon' = [anon EXCEPT ![a] =
                       [AnonRequest("POST /auth/login",
                                    [email |-> email, passwordValid |-> valid,
                                     refreshToken |-> Undefined])
                          EXCEPT !.pc = "loginSelect"]]
    /\ UNCHANGED <<store, now, reqs, loggedOut, work>>

LoginSelect(a) ==
    /\ anon[a].pc = "loginSelect"
    /\ \E ok \in BOOLEAN :
           anon' = [anon EXCEPT ![a] =
                       loginUser(anon[a], ok, SelectActiveUserByEmail(anon[a].body.email))]
    /\ UNCHANGED <<store, now, reqs, loggedOut, work>>

LoginCompare(a) ==
    /\ anon[a].pc = "loginCompare"
    /\ anon' = [anon EXCEPT ![a] = loginCompare(anon[a], now)]
    /\ UNCHANGED <<store, now, reqs, loggedOut, work>>

\* POST /auth/login: INSERT INTO user_sessions; the store refuses a row
\* whose user is gone (FOREIGN KEY)
LoginInsert(a) ==
    /\ anon[a].pc = "loginInsert"
    /\ \E ok \in BOOLEAN :
         LET q == anon[a]
             accepted == ok /\ \E u \in users : u.id = q.user.id
         IN  IF accepted
               THEN /\ user_sessions' = user_sessions
                                          \cup {NewSession(q.user.id, q.refreshToken, q.expiresAt)}
                    /\ anon' = [anon EXCEPT ![a] = [q EXCEPT !.pc = "loginTouch"]]
               ELSE /\ UNCHANGED user_sessions
                    /\ anon' = [anon EXCEPT ![a] = AnonSend(q, AuthError(500, "Login failed"))]
    /\ UNCHANGED <<users, tenants, roles, role_permissions, user_roles, audit_logs, now, reqs,
                   loggedOut, work>>

\* POST /auth/login: UPDATE users SET last_login, then the response with
\* both tokens
LoginTouch(a) ==
    /\ anon[a].pc = "loginTouch"
    /\ \E ok \in BOOLEAN :
         LET q == anon[a]
         IN  anon' = [anon EXCEPT ![a] =
                         IF ok THEN AnonSend(q, AuthResponse(200, "", q.accessToken, q.refreshToken))
                         ELSE AnonSend(q, AuthError(500, "Login failed"))]
    /\ UNCHANGED <<store, now, reqs, loggedOut, work>>

\* Refresh tokens a client can present: those of the session rows, and
\* strings that are none
RefreshBodies ==
    { x.refresh_token : x \in user_sessions }
    \cup { Undefined, Garbage, Jwt("access", MaxNow + 1, 2), Jwt("refresh", 1, 3) }

\* POST /auth/refresh-token arrives and runs to its await
RefreshArrive(a) ==
    /\ anon[a].pc = "idle"
    /\ \E token \in RefreshBodies :
           anon' = [anon EXCEPT ![a] =
                       refreshBegin(AnonRequest("POST /auth/refresh-token",
                                                [email |-> 0, passwordValid |-> FALSE,
                                                 refreshToken |-> token]), now)]
    /\ UNCHANGED <<store, now, reqs, loggedOut, work>>

RefreshSelect(a) ==
    /\ anon[a].pc = "refreshSelect"
    /\ \E ok \in BOOLEAN :
           anon' = [anon EXCEPT ![a] =
                       refreshSessions(anon[a], ok,
                                       SelectValidSessions(anon[a].body.refreshToken, now), now)]
    /\ UNCHANGED <<store, now, reqs, loggedOut, work>>

\* The response has gone out; the slot takes the next request.
AnonFinish(a) ==
    /\ anon[a].pc = "done"
    /\ anon' = [anon EXCEPT ![a] = IdleAnon]
    /\ UNCHANGED <<store, now, reqs, loggedOut, work>>

\* The accounts that use the session routes: the Admin of tenant 1 and its
\* other account
SessionUsers == {1, 2}

\* The bearer tokens they send: their access tokens, and the refresh token
\* of account 2 in place of one
SessionBearers ==
    { Jwt("access", MaxNow + 1, u) : u \in SessionUsers }
    \cup { jwt_sign([userId |-> 2, tenantId |-> 1], "refresh", 0, RefreshLife) }

\* What a request of the session routes asks for
SessionRequests ==
    { [route |-> "POST /auth/logout", params |-> NoParams,
       body |-> [NoBody EXCEPT !.refreshToken = t]] :
        t \in { x.refresh_token : x \in user_sessions } \cup {Undefined} }
    \cup { [route |-> "DELETE /auth/sessions/:id", params |-> [NoParams EXCEPT !.id = i],
            body |-> NoBody] : i \in 1..MaxSessions }
    \cup { [route |-> "PUT /users/:id/status", params |-> [NoParams EXCEPT !.id = i],
            body |-> [NoBody EXCEPT !.status = st]] :
             i \in SessionUsers, st \in {"active", "inactive"} }

\* A request of the session routes arrives with the access token of an
\* account, and verifyToken runs to its first await
ReceiveSession(r) ==
    /\ reqs[r].pc = "idle"
    /\ \E t \in SessionBearers, x \in SessionRequests :
           reqs' = [reqs EXCEPT ![r] =
                       verifyTokenBegin(
                           [NewRequest(Header(TRUE, <<Bearer, t>>), x.route, x.params)
                              EXCEPT !.body = x.body], now)]
    /\ UNCHANGED <<store, now, anon, loggedOut, work>>

\* Sessions in the table when the run starts: one of account 2, left by
\* its login at instant 0, and one of account 1 whose row expires at instant
\* 1 while its token lasts (a registration under a longer
\* JWT_REFRESH_EXPIRES_IN).
SeedSessions ==
    { [id |-> 1, user_id |-> 2,
       refresh_token |-> jwt_sign([userId |-> 2, tenantId |-> 1], "refresh", 0, RefreshLife),
       is_active |-> TRUE, expires_at |-> RefreshLife],
      [id |-> 2, user_id |-> 1, refresh_token |-> Jwt("refresh", MaxNow + 1, 1),
       is_active |-> TRUE, expires_at |-> 1] }

\* Active tenants and accounts (account 2 holds role 4, without users.edit),
\* with their sessions
SessionsInit ==
    /\ tenants = { [id |-> t, status |-> "active"] : t \in TenantIds }
    /\ users = { [id |-> u, tenant_id |-> HomeTenant(u), email |-> u, status |-> "active"] :
                   u \in UserIds }
    /\ roles = SeedRoles
    /\ role_permissions = SeedRolePermissions
    /\ user_roles = SeedUserRoles({4})
    /\ audit_logs = {}
    /\ user_sessions = SeedSessions
    /\ now = 0
    /\ reqs = [r \in Reqs |-> IdleRequest]
    /\ anon = [a \in Anons |-> IdleAnon]
    /\ loggedOut = {}
    /\ SeedWork

SessionsNext ==
    \/ \E r \in Reqs : ReceiveSession(r)
    \/ \E r \in Reqs : UserQuery(r)
    \/ \E r \in Reqs : PermQuery(r)
    \/ \E r \in Reqs : GateStep(r)
    \/ \E r \in Reqs : HandlerBegin(r)
    \/ \E r \in Reqs : LogoutUpdate(r)
    \/ \E r \in Reqs : SessionUpdate(r)
    \/ \E r \in Reqs : StatusSelectUser(r)
    \/ \E r \in Reqs : StatusUpdate(r)
    \/ \E r \in Reqs : StatusRevoke(r)
    \/ \E r \in Reqs : StatusAudit(r)
    \/ \E r \in Reqs : Finish(r)
    \/ \E a \in Anons : LoginArrive(a)
    \/ \E a \in Anons : LoginSelect(a)
    \/ \E a \in Anons : LoginCompare(a)
    \/ \E a \in Anons : LoginInsert(a)
    \/ \E a \in Anons : LoginTouch(a)
    \/ \E a \in Anons : RefreshArrive(a)
    \/ \E a \in Anons : RefreshSelect(a)
    \/ \E a \in Anons : AnonFinish(a)
    \/ Tick

\* Logins, refreshes, logouts, session revocations and status changes
SpecSessions == SessionsInit /\ [][SessionsNext]_vars

\* What a request that revokes a session asks for: POST /auth/logout with the
\* refresh token of a session, with one no session holds or with none, and
\* DELETE /auth/sessions/:id with the id of a session or with one no row has
RevokeRequests ==
    { [route |-> "POST /auth/logout", params |-> NoParams,
       body |-> [NoBody EXCEPT !.refreshToken = t]] :
        t \in { x.refresh_token : x \in user_sessions } \cup {Undefined, Garbage} }
    \cup { [route |-> "DELETE /auth/sessions/:id", params |-> [NoParams EXCEPT !.id = i],
            body |-> NoBody] : i \in 1..MaxSessions }

\* The bearer tokens of these requests: those of the session routes, and the
\* access token the login that created session 1 returned at instant 0
RevokeBearers ==
    SessionBearers \cup { jwt_sign([userId |-> 2, tenantId |-> 1], "access", 0, AccessLife) }

\* A request that revokes a session arrives, and verifyToken runs to its
\* first await
ReceiveRevoke(r) ==
    /\ reqs[r].pc = "idle"
    /\ \E t \in RevokeBearers, x \in RevokeRequests :
           reqs' = [reqs EXCEPT ![r] =
                       verifyTokenBegin(
                           [NewRequest(Header(TRUE, <<Bearer, t>>), x.route, x.params)
                              EXCEPT !.body = x.body], now)]
    /\ UNCHANGED <<store, now, anon, loggedOut, work>>

RevokeNext ==
    \/ \E r \in Reqs : ReceiveRevoke(r)
    \/ \E r \in Reqs : UserQuery(r)
    \/ \E r \in Reqs : PermQuery(r)
    \/ \E r \in Reqs : HandlerBegin(r)
    \/ \E r \in Reqs : LogoutUpdate(r)
    \/ \E r \in Reqs : SessionUpdate(r)
    \/ \E r \in Reqs : Finish(r)
    \/ Tick

\* Logouts and session revocations alone, on the seeded sessions
SpecRevoke == SessionsInit /\ [][RevokeNext]_vars

\* The client sends the access token a refresh has just answered with as
\* bearer token of GET /tenants/current
ReceiveMinted(r) ==
    /\ reqs[r].pc = "idle"
    /\ \E a \in Anons :
           /\ anon[a].pc = "done"
           /\ anon[a].res.accessToken # Undefined
           /\ reqs' = [reqs EXCEPT ![r] =
                          verifyTokenBegin(
                              NewRequest(Header(TRUE, <<Bearer, anon[a].res.accessToken>>),
                                         "GET /tenants/current", NoParams), now)]
    /\ UNCHANGED <<store, now, anon, loggedOut, work>>

\* Tenant 2 has been suspended after account 3 had logged in, and account 2
\* is active, or inactive with its session left active (a login that ran
\* across the deactivation).
RefreshInit ==
    /\ tenants = { [id |-> 1, status |-> "active"], [id |-> 2, status |-> "suspended"] }
    /\ \E st \in {"active", "inactive"} :
           users = { [id |-> 1, tenant_id |-> 1, email |-> 1, status |-> "active"],
                     [id |-> 2, tenant_id |-> 1, email |-> 2, status |-> st],
                     [id |-> 3, tenant_id |-> 2, email |-> 3, status |-> "active"] }
    /\ roles = SeedRoles
    /\ role_permissions = SeedRolePermissions
    /\ user_roles = SeedUserRoles({4})
    /\ audit_logs = {}
    /\ user_sessions = SeedSessions
          \cup { [id |-> 3, user_id |-> 3,
                  refresh_token |-> jwt_sign([userId |-> 3, tenantId |-> 2], "refresh", 0,
                                             RefreshLife),
                  is_active |-> TRUE, expires_at |-> RefreshLife] }
    /\ now = 0
    /\ reqs = [r \in Reqs |-> IdleRequest]
    /\ anon = [a \in Anons |-> IdleAnon]
    /\ loggedOut = {}
    /\ SeedWork

RefreshNext ==
    \/ \E a \in Anons : RefreshArrive(a)
    \/ \E a \in Anons : RefreshSelect(a)
    \/ \E a \in Anons : AnonFinish(a)
    \/ \E r \in Reqs : ReceiveMinted(r)
    \/ \E r \in Reqs : UserQuery(r)
    \/ \E r \in Reqs : PermQuery(r)
    \/ \E r \in Reqs : HandlerBegin(r)
    \/ \E r \in Reqs : ReadSelect(r)
    \/ \E r \in Reqs : Finish(r)
    \/ Tick

\* Refreshes, and requests made with the access tokens they return
SpecRefresh == RefreshInit /\ [][RefreshNext]_vars

-----------------------------------------------------------------------------
(* Administration: routes/roles.js, POST /auth/register, and the changes of
   role and status *)

\* Most tenants, and most custom roles, the tables take
MaxTenants == 3

MaxCustomRoles == 3

\* AUTO_INCREMENT ids (the routes modelled delete no tenant and no role; each
\* registration creates one tenant and one user, after the four seeded ones)
NextTenantId == Cardinality(tenants) + 1

NextRoleId == Cardinality(roles) + 1

NextUserId == Cardinality(tenants) + 3

\* INSERT INTO role_permissions (role_id, permission_id) VALUES (?, ?): the
\* store refuses a duplicate primary key and a dangling foreign key
AcceptsRolePermission(roleId, permId) ==
    /\ [role_id |-> roleId, permission_id |-> permId] \notin role_permissions
    /\ \E k \in roles : k.id = roleId
    /\ \E p \in permissions : p.id = permId

\* UNIQUE KEY (tenant_id, name) of roles: the store refuses a name another
\* role of the tenant has
AcceptsRoleName(tenantId, name, roleId) ==
    ~\E k \in roles : k.tenant_id = tenantId /\ k.name = name /\ k.id # roleId

\* catch (error) of POST /roles
createRoleCatch(q) == Send(q, ErrorResponse(500, "Failed to create role"))

\* POST /roles: INSERT INTO roles, then the loop over permissionIds
CreateRole(r) ==
    /\ reqs[r].pc = "createRole"
    /\ \E ok \in BOOLEAN :
         LET q  == reqs[r]
             q1 == [q EXCEPT !.insertId = NextRoleId, !.rest = q.body.permissionIds]
         IN  IF ok /\ AcceptsRoleName(q.user.tenantId, q.body.name, NextRoleId)
               THEN /\ roles' = roles \cup {[id |-> NextRoleId, tenant_id |-> q.user.tenantId,
                                             name |-> q.body.name, is_system_role |-> FALSE]}
                    /\ reqs' = [reqs EXCEPT ![r] =
                                   IF q1.rest = <<>>
                                       THEN Send(q1, Response(201, "", "Role created successfully",
                                                              NoRequired, q1.insertId))
                                       ELSE [q1 EXCEPT !.pc = "createRolePerms"]]
               ELSE /\ UNCHANGED roles
                    /\ reqs' = [reqs EXCEPT ![r] = createRoleCatch(q)]
    /\ UNCHANGED <<users, tenants, role_permissions, user_roles, audit_logs, user_sessions, now,
                   anon, loggedOut, work>>

\* POST /roles: one INSERT INTO role_permissions of the loop
CreateRolePerm(r) ==
    /\ reqs[r].pc = "createRolePerms"
    /\ \E ok \in BOOLEAN :
         LET q  == reqs[r]
             q1 == [q EXCEPT !.rest = Tail(q.rest)]
         IN  IF ok /\ AcceptsRolePermission(q.insertId, Head(q.rest))
               THEN /\ role_permissions' = role_permissions
                          \cup {[role_id |-> q.insertId, permission_id |-> Head(q.rest)]}
                    /\ reqs' = [reqs EXCEPT ![r] =
                                   IF q1.rest = <<>>
                                       THEN Send(q1, Response(201, "", "Role created successfully",
                                                              NoRequired, q1.insertId))
                                       ELSE q1]
               ELSE /\ UNCHANGED role_permissions
                    /\ reqs' = [reqs EXCEPT ![r] = createRoleCatch(q)]
    /\ UNCHANGED <<users, tenants, roles, user_roles, audit_logs, user_sessions, now, anon,
                   loggedOut, work>>

\* UpdateRoleSelect without its test of is_system_role
MutUpdateRoleSelectAnyRole(r) ==
    /\ reqs[r].pc = "updateRoleSelect"
    /\ \E ok \in BOOLEAN :
         LET q == reqs[r]
             rows == { k \in roles : k.id = q.params.id /\ k.tenant_id = q.user.tenantId }
         IN  reqs' = [reqs EXCEPT ![r] =
                         IF ~ok THEN roleCatch(q)
                         ELSE IF rows = {} THEN Send(q, ErrorResponse(404, "Role not found"))
                         ELSE IF q.body.name # "" THEN [q EXCEPT !.pc = "updateRoleName"]
                         ELSE [q EXCEPT !.pc = "updateRoleDelete"]]
    /\ UNCHANGED <<store, now, anon, loggedOut, work>>

\* PUT /roles/:id: SELECT is_system_role FROM roles WHERE id = ? AND tenant_id = ?,
\* the two rejections, and if (name || description): the bodies sent carry
\* a name or none, and no description (the UPDATE treats both alike)
UpdateRoleSelect(r) ==
    /\ reqs[r].pc = "updateRoleSelect"
    /\ \E ok \in BOOLEAN :
         LET q == reqs[r]
             rows == { k \in roles : k.id = q.params.id /\ k.tenant_id = q.user.tenantId }
         IN  reqs' = [reqs EXCEPT ![r] =
                         IF ~ok THEN roleCatch(q)
                         ELSE IF rows = {} THEN Send(q, ErrorResponse(404, "Role not found"))
                         ELSE IF (CHOOSE k \in rows : TRUE).is_system_role
                             THEN Send(q, ErrorResponse(400, "Cannot modify system role"))
                         ELSE IF q.body.name # "" THEN [q EXCEPT !.pc = "updateRoleName"]
                         ELSE [q EXCEPT !.pc = "updateRoleDelete"]]
    /\ UNCHANGED <<store, now, anon, loggedOut, work>>

\* PUT /roles/:id: UPDATE roles SET name = COALESCE(?, name), ... WHERE id = ?
UpdateRoleName(r) ==
    /\ reqs[r].pc = "updateRoleName"
    /\ \E ok \in BOOLEAN :
         LET q == reqs[r]
             hit == { k \in roles : k.id = q.params.id }
         IN  IF ok /\ \A k \in hit : AcceptsRoleName(k.tenant_id, q.body.name, k.id)
               THEN /\ roles' = (roles \ hit) \cup { [k EXCEPT !.name = q.body.name] : k \in hit }
                    /\ reqs' = [reqs EXCEPT ![r] = [q EXCEPT !.pc = "updateRoleDelete"]]
               ELSE /\ UNCHANGED roles
                    /\ reqs' = [reqs EXCEPT ![r] = roleCatch(q)]
    /\ UNCHANGED <<users, tenants, role_permissions, user_roles, audit_logs, user_sessions, now,
                   anon, loggedOut, work>>

\* PUT /roles/:id: DELETE FROM role_permissions WHERE role_id = ?
UpdateRoleDelete(r) ==
    /\ reqs[r].pc = "updateRoleDelete"
    /\ \E ok \in BOOLEAN :
         LET q  == reqs[r]
             q1 == [q EXCEPT !.rest = q.body.permissionIds]
         IN  IF ok
               THEN /\ role_permissions' = { x \in role_permissions : x.role_id # q.params.id }
                    /\ reqs' = [reqs EXCEPT ![r] =
                                   IF q1.rest = <<>>
                                       THEN Send(q1, Response(200, "", "Role updated successfully",
                                                              NoRequired, 0))
                                       ELSE [q1 EXCEPT !.pc = "updateRolePerms"]]
               ELSE /\ UNCHANGED role_permissions
                    /\ reqs' = [reqs EXCEPT ![r] = roleCatch(q)]
    /\ UNCHANGED <<users, tenants, roles, user_roles, audit_logs, user_sessions, now, anon,
                   loggedOut, work>>

\* PUT /roles/:id: one INSERT INTO role_permissions of the loop
UpdateRolePerm(r) ==
    /\ reqs[r].pc = "updateRolePerms"
    /\ \E ok \in BOOLEAN :
         LET q  == reqs[r]
             q1 == [q EXCEPT !.rest = Tail(q.rest)]
         IN  IF ok /\ AcceptsRolePermission(q.params.id, Head(q.rest))
               THEN /\ role_permissions' = role_permissions
                          \cup {[role_id |-> q.params.id, permission_id |-> Head(q.rest)]}
                    /\ reqs' = [reqs EXCEPT ![r] =
                                   IF q1.rest = <<>>
                                       THEN Send(q1, Response(200, "", "Role updated successfully",
                                                              NoRequired, 0))
                                       ELSE q1]
               ELSE /\ UNCHANGED role_permissions
                    /\ reqs' = [reqs EXCEPT ![r] = roleCatch(q)]
    /\ UNCHANGED <<users, tenants, roles, user_roles, audit_logs, user_sessions, now, anon,
                   loggedOut, work>>

\* The roles POST /auth/register creates, in the order of their INSERTs
DefaultRoleNames == <<"Admin", "Manager", "Member">>

\* POST /auth/register arrives (its validation passes) and issues its query
\* for the address: that of account 2, or one that belongs to no account
RegisterArrive(a) ==
    /\ anon[a].pc = "idle"
    /\ Cardinality(tenants) < MaxTenants
    /\ \E email \in LoginEmails :
           anon' = [anon EXCEPT ![a] =
                       [AnonRequest("POST /auth/register",
                                    [email |-> email, passwordValid |-> FALSE,
                                     refreshToken |-> Undefined])
                          EXCEPT !.pc = "registerExisting"]]
    /\ UNCHANGED <<store, now, reqs, loggedOut, work>>

\* POST /auth/register: SELECT id FROM users WHERE email = ?
RegisterExisting(a) ==
    /\ anon[a].pc = "registerExisting"
    /\ \E ok \in BOOLEAN :
         LET q == anon[a]
             existing == { u \in users : u.email = q.body.email }
         IN  anon' = [anon EXCEPT ![a] =
                         IF ~ok THEN AnonSend(q, AuthError(500, "Registration failed"))
                         ELSE IF existing # {}
                             THEN AnonSend(q, AuthError(400, "Email already registered"))
                         ELSE [q EXCEPT !.pc = "registerCommit"]]
    /\ UNCHANGED <<store, now, reqs, loggedOut, work>>

\* POST /auth/register: the transaction commits the tenant, its three system
\* roles, the permissions of Admin, the user and its Admin role, or rolls all
\* of it back; after the commit both tokens are signed.
RegisterCommit(a) ==
    /\ anon[a].pc = "registerCommit"
    /\ \E ok \in BOOLEAN :
         LET q           == anon[a]
             tenantId    == NextTenantId
             adminRoleId == NextRoleId
             userId      == NextUserId
             payload     == [userId |-> userId, tenantId |-> tenantId]
         IN  IF ok
               THEN /\ tenants' = tenants \cup {[id |-> tenantId, status |-> "active"]}
                    /\ roles' = roles \cup { [id |-> adminRoleId + i, tenant_id |-> tenantId,
                                              name |-> DefaultRoleNames[i + 1],
                                              is_system_role |-> TRUE] : i \in 0..2 }
                    /\ role_permissions' = role_permissions
                          \cup { [role_id |-> adminRoleId, permission_id |-> p.id] :
                                   p \in permissions }
                    /\ users' = users \cup {[id |-> userId, tenant_id |-> tenantId,
                                             email |-> q.body.email, status |-> "active"]}
                    /\ user_roles' = user_roles \cup {[user_id |-> userId, role_id |-> adminRoleId]}
                    /\ anon' = [anon EXCEPT ![a] =
                                   [q EXCEPT !.user = [id |-> userId, tenant_id |-> tenantId,
                                                       tenant_status |-> "active",
                                                       status |-> "active"],
                                             !.accessToken =
                                                 jwt_sign(payload, "access", now, AccessLife),
                                             !.refreshToken =
                                                 jwt_sign(payload, "refresh", now, RefreshLife),
                                             !.expiresAt = now + RefreshLife,
                                             !.pc = "registerSession"]]
               ELSE /\ UNCHANGED <<tenants, roles, role_permissions, users, user_roles>>
                    /\ anon' = [anon EXCEPT ![a] =
                                   AnonSend(q, AuthError(500, "Registration failed"))]
    /\ UNCHANGED <<audit_logs, user_sessions, now, reqs, loggedOut, work>>

\* POST /auth/register: INSERT INTO user_sessions, then the 201 response
RegisterSession(a) ==
    /\ anon[a].pc = "registerSession"
    /\ \E ok \in BOOLEAN :
         LET q == anon[a]
         IN  IF ok /\ \E u \in users : u.id = q.user.id
               THEN /\ user_sessions' = user_sessions
                          \cup {NewSession(q.user.id, q.refreshToken, q.expiresAt)}
                    /\ anon' = [anon EXCEPT ![a] =
                                   AnonSend(q, AuthResponse(201, "", q.accessToken,
                                                            q.refreshToken))]
               ELSE /\ UNCHANGED user_sessions
                    /\ anon' = [anon EXCEPT ![a] =
                                   AnonSend(q, AuthError(500, "Registration failed"))]
    /\ UNCHANGED <<users, tenants, roles, role_permissions, user_roles, audit_logs, now, reqs,
                   loggedOut, work>>

\* What a request of the administration routes asks for, besides PUT
\* /users/:id/role
AdminRequests ==
    { [route |-> "PUT /users/:id/status", params |-> [NoParams EXCEPT !.id = 2],
       body |-> [NoBody EXCEPT !.status = st]] : st \in {"active", "inactive"} }
    \cup { [route |-> "POST /roles", params |-> NoParams,
            body |-> [NoBody EXCEPT !.name = "Reviewer", !.permissionIds = <<1, 3>>]] }
    \cup { [route |-> "PUT /roles/:id", params |-> [NoParams EXCEPT !.id = i],
            body |-> [NoBody EXCEPT !.permissionIds = l]] :
             i \in {1, 2, 3}, l \in {<<>>, <<18>>} }

\* A request of the administration routes arrives with the access token of
\* an account, and verifyToken runs to its first await
ReceiveAdmin(r) ==
    /\ reqs[r].pc = "idle"
    /\ \E u \in AdminCallers, x \in AdminRequests :
           /\ x.route = "POST /roles"
              => Cardinality({ k \in roles : ~k.is_system_role }) < MaxCustomRoles
           /\ reqs' = [reqs EXCEPT ![r] =
                          verifyTokenBegin(
                              [NewRequest(Header(TRUE, <<Bearer, Jwt("access", MaxNow + 1, u)>>),
                                          x.route, x.params) EXCEPT !.body = x.body], now)]
    /\ UNCHANGED <<store, now, anon, loggedOut, work>>

\* Tenant 1 active with its Admin and account 2, which holds role 2 (with
\* users.edit); tenant 2 suspended, with its Member.
AdminInit ==
    /\ tenants = { [id |-> 1, status |-> "active"], [id |-> 2, status |-> "suspended"] }
    /\ users = { [id |-> u, tenant_id |-> HomeTenant(u), email |-> u, status |-> "active"] :
                   u \in UserIds }
    /\ roles = SeedRoles
    /\ role_permissions = SeedRolePermissions
    /\ user_roles = SeedUserRoles({2})
    /\ audit_logs = {}
    /\ user_sessions = {}
    /\ now = 0
    /\ reqs = [r \in Reqs |-> IdleRequest]
    /\ anon = [a \in Anons |-> IdleAnon]
    /\ loggedOut = {}
    /\ SeedWork

RolesNext ==
    \/ \E r \in Reqs : ReceiveRole(r)
    \/ \E r \in Reqs : ReceiveAdmin(r)
    \/ \E r \in Reqs : UserQuery(r)
    \/ \E r \in Reqs : PermQuery(r)
    \/ \E r \in Reqs : GateStep(r)
    \/ \E r \in Reqs : HandlerBegin(r)
    \/ \E r \in Reqs : RoleSelectUser(r)
    \/ \E r \in Reqs : RoleSelectRole(r)
    \/ \E r \in Reqs : RoleDelete(r)
    \/ \E r \in Reqs : RoleInsert(r)
    \/ \E r \in Reqs : RoleAudit(r)
    \/ \E r \in Reqs : StatusSelectUser(r)
    \/ \E r \in Reqs : StatusUpdate(r)
    \/ \E r \in Reqs : StatusRevoke(r)
    \/ \E r \in Reqs : StatusAudit(r)
    \/ \E r \in Reqs : CreateRole(r)
    \/ \E r \in Reqs : CreateRolePerm(r)
    \/ \E r \in Reqs : UpdateRoleSelect(r)
    \/ \E r \in Reqs : UpdateRoleDelete(r)
    \/ \E r \in Reqs : UpdateRolePerm(r)
    \/ \E r \in Reqs : Finish(r)
    \/ \E a \in Anons : RegisterArrive(a)
    \/ \E a \in Anons : RegisterExisting(a)
    \/ \E a \in Anons : RegisterCommit(a)
    \/ \E a \in Anons : RegisterSession(a)
    \/ \E a \in Anons : AnonFinish(a)

\* Registration, role creation and update, and changes of role and status,
\* requested by accounts of every tenant
SpecRoles == AdminInit /\ [][RolesNext]_vars

\* What a PUT /roles/:id asks for: the id of a system role or of a custom
\* role of tenant 1, or of the system role of tenant 2; a new name or none;
\* the permissions to put in place of the old ones
EditRequests ==
    { [params |-> [NoParams EXCEPT !.id = i],
       body |-> [NoBody EXCEPT !.name = n, !.permissionIds = l]] :
        i \in {1, 2, 3, 4}, n \in {"", "Auditor", "Lead"}, l \in {<<>>, <<18>>, <<3, 3>>} }

\* A PUT /roles/:id arrives with the access token of an account
ReceiveEdit(r) ==
    /\ reqs[r].pc = "idle"
    /\ \E u \in UserIds, x \in EditRequests :
           reqs' = [reqs EXCEPT ![r] =
                       verifyTokenBegin(
                           [NewRequest(Header(TRUE, <<Bearer, Jwt("access", MaxNow + 1, u)>>),
                                       "PUT /roles/:id", x.params) EXCEPT !.body = x.body], now)]
    /\ UNCHANGED <<store, now, anon, loggedOut, work>>

EditNext ==
    \/ \E r \in Reqs : ReceiveEdit(r)
    \/ \E r \in Reqs : UserQuery(r)
    \/ \E r \in Reqs : PermQuery(r)
    \/ \E r \in Reqs : GateStep(r)
    \/ \E r \in Reqs : HandlerBegin(r)
    \/ \E r \in Reqs : UpdateRoleSelect(r)
    \/ \E r \in Reqs : UpdateRoleName(r)
    \/ \E r \in Reqs : UpdateRoleDelete(r)
    \/ \E r \in Reqs : UpdateRolePerm(r)
    \/ \E r \in Reqs : Finish(r)

\* Edits of roles, requested by the accounts of both tenants
SpecRoleEdit == AdminInit /\ [][EditNext]_vars

-----------------------------------------------------------------------------
(* Every operation that writes user_sessions *)

\* What the requests behind verifyToken ask for: a logout with the refresh
\* token of a session, the deletion of a session, account 2 made inactive or
\* active again
LifecycleRequests ==
    { [route |-> "POST /auth/logout", params |-> NoParams,
       body |-> [NoBody EXCEPT !.refreshToken = t]] :
        t \in { x.refresh_token : x \in user_sessions } }
    \cup { [route |-> "DELETE /auth/sessions/:id", params |-> [NoParams EXCEPT !.id = i],
            body |-> NoBody] : i \in 1..MaxSessions }
    \cup { [route |-> "PUT /users/:id/status", params |-> [NoParams EXCEPT !.id = 2],
            body |-> [NoBody EXCEPT !.status = st]] : st \in {"active", "inactive"} }

\* One of them arrives with the access token of account 1, the Admin
ReceiveLifecycle(r) ==
    /\ reqs[r].pc = "idle"
    /\ \E x \in LifecycleRequests :
           reqs' = [reqs EXCEPT ![r] =
                       verifyTokenBegin(
                           [NewRequest(Header(TRUE, <<Bearer, Jwt("access", MaxNow + 1, 1)>>),
                                       x.route, x.params)
                              EXCEPT !.body = x.body], now)]
    /\ UNCHANGED <<store, now, anon, loggedOut, work>>

LifecycleNext ==
    \/ \E r \in Reqs : ReceiveLifecycle(r)
    \/ \E r \in Reqs : UserQuery(r)
    \/ \E r \in Reqs : PermQuery(r)
    \/ \E r \in Reqs : GateStep(r)
    \/ \E r \in Reqs : HandlerBegin(r)
    \/ \E r \in Reqs : LogoutUpdate(r)
    \/ \E r \in Reqs : SessionUpdate(r)
    \/ \E r \in Reqs : StatusSelectUser(r)
    \/ \E r \in Reqs : StatusUpdate(r)
    \/ \E r \in Reqs : StatusRevoke(r)
    \/ \E r \in Reqs : StatusAudit(r)
    \/ \E r \in Reqs : Finish(r)
    \/ \E a \in Anons : LoginArrive(a)
    \/ \E a \in Anons : LoginSelect(a)
    \/ \E a \in Anons : LoginCompare(a)
    \/ \E a \in Anons : LoginInsert(a)
    \/ \E a \in Anons : LoginTouch(a)
    \/ \E a \in Anons : RefreshArrive(a)
    \/ \E a \in Anons : RefreshSelect(a)
    \/ \E a \in Anons : RegisterArrive(a)
    \/ \E a \in Anons : RegisterExisting(a)
    \/ \E a \in Anons : RegisterCommit(a)
    \/ \E a \in Anons : RegisterSession(a)
    \/ \E a \in Anons : AnonFinish(a)

\* Logins, registrations, refreshes, logouts, session deletions and status
\* changes, at one instant
SpecLifecycle == SessionsInit /\ [][LifecycleNext]_vars

-----------------------------------------------------------------------------
(* Task routes *)

\* Rows the task tables may hold before another task request is taken
MaxTaskRows == 2

\* Permissions the gates of the task routes ask for
TaskPermissions == {"tasks.view", "tasks.edit"}

\* catch (error) of the four task routes
taskCatch(q) ==
    IF q.route = "POST /tasks/:id/assign"
        THEN Send(q, ErrorResponse(500, "Failed to assign task"))
    ELSE IF q.route = "POST /tasks/:id/comments"
        THEN Send(q, ErrorResponse(500, "Failed to add comment"))
    ELSE IF q.route = "POST /tasks/:id/attachments"
        THEN Send(q, ErrorResponse(500, "Failed to upload file"))
    ELSE Send(q, ErrorResponse(500, "Failed to add dependency"))

\* FOREIGN KEY (task_id) REFERENCES tasks(id)
TaskExists(taskId) == \E t \in tasks : t.id = taskId

\* FOREIGN KEY (user_id) REFERENCES users(id)
UserExists(userId) == \E u \in users : u.id = userId

\* POST /tasks/:id/assign: DELETE FROM task_assignments WHERE task_id = ?
AssignDelete(r) ==
    /\ reqs[r].pc = "assignDelete"
    /\ \E ok \in BOOLEAN :
         LET q  == reqs[r]
             q1 == [q EXCEPT !.rest = q.body.userIds]
         IN  IF ok
               THEN /\ task_assignments' = { x \in task_assignments : x.task_id # q.params.id }
                    /\ reqs' = [reqs EXCEPT ![r] =
                                   IF q1.rest = <<>>
                                       THEN Send(q1, Response(200, "", "Task assigned successfully",
                                                              NoRequired, 0))
                                       ELSE [q1 EXCEPT !.pc = "assignInsert"]]
               ELSE /\ UNCHANGED task_assignments
                    /\ reqs' = [reqs EXCEPT ![r] = taskCatch(q)]
    /\ UNCHANGED <<store, now, anon, loggedOut, tasks, task_comments, task_attachments,
                   task_dependencies, notifications, time_entries>>

\* POST /tasks/:id/assign: INSERT INTO task_assignments (task_id, user_id)
\* for the next userId of the loop
AssignInsert(r) ==
    /\ reqs[r].pc = "assignInsert"
    /\ \E ok \in BOOLEAN :
         LET q   == reqs[r]
             row == [task_id |-> q.params.id, user_id |-> Head(q.rest)]
         IN  IF ok /\ row \notin task_assignments /\ TaskExists(row.task_id)
                   /\ UserExists(row.user_id)
               THEN /\ task_assignments' = task_assignments \cup {row}
                    /\ reqs' = [reqs EXCEPT ![r] = [q EXCEPT !.pc = "assignNotify"]]
               ELSE /\ UNCHANGED task_assignments
                    /\ reqs' = [reqs EXCEPT ![r] = taskCatch(q)]
    /\ UNCHANGED <<store, now, anon, loggedOut, tasks, task_comments, task_attachments,
                   task_dependencies, notifications, time_entries>>

\* POST /tasks/:id/assign: INSERT INTO notifications for the same userId,
\* then the loop goes on or the 200 response is sent
AssignNotify(r) ==
    /\ reqs[r].pc = "assignNotify"
    /\ \E ok \in BOOLEAN :
         LET q   == reqs[r]
             q1  == [q EXCEPT !.rest = Tail(q.rest)]
             row == [id |-> Cardinality(notifications) + 1, tenant_id |-> q.user.tenantId,
                     user_id |-> Head(q.rest), taskId |-> q.params.id]
         IN  IF ok /\ UserExists(row.user_id)
               THEN /\ notifications' = notifications \cup {row}
                    /\ reqs' = [reqs EXCEPT ![r] =
                                   IF q1.rest = <<>>
                                       THEN Send(q1, Response(200, "", "Task assigned successfully",
                                                              NoRequired, 0))
                                       ELSE [q1 EXCEPT !.pc = "assignInsert"]]
               ELSE /\ UNCHANGED notifications
                    /\ reqs' = [reqs EXCEPT ![r] = taskCatch(q)]
    /\ UNCHANGED <<store, now, anon, loggedOut, tasks, task_assignments, task_comments,
                   task_attachments, task_dependencies, time_entries>>

\* POST /tasks/:id/comments: INSERT INTO task_comments, then 201
CommentInsert(r) ==
    /\ reqs[r].pc = "commentInsert"
    /\ \E ok \in BOOLEAN :
         LET q   == reqs[r]
             row == [id |-> Cardinality(task_comments) + 1, task_id |-> q.params.id,
                     user_id |-> q.user.id]
         IN  IF ok /\ TaskExists(row.task_id) /\ UserExists(row.user_id)
               THEN /\ task_comments' = task_comments \cup {row}
                    /\ reqs' = [reqs EXCEPT ![r] =
                                   Send(q, Response(201, "", "Comment added", NoRequired, row.id))]
               ELSE /\ UNCHANGED task_comments
                    /\ reqs' = [reqs EXCEPT ![r] = taskCatch(q)]
    /\ UNCHANGED <<store, now, anon, loggedOut, tasks, task_assignments, task_attachments,
                   task_dependencies, notifications, time_entries>>

\* POST /tasks/:id/attachments: INSERT INTO task_attachments, then 201
AttachmentInsert(r) ==
    /\ reqs[r].pc = "attachmentInsert"
    /\ \E ok \in BOOLEAN :
         LET q   == reqs[r]
             row == [id |-> Cardinality(task_attachments) + 1, task_id |-> q.params.id,
                     user_id |-> q.user.id]
         IN  IF ok /\ TaskExists(row.task_id) /\ UserExists(row.user_id)
               THEN /\ task_attachments' = task_attachments \cup {row}
                    /\ reqs' = [reqs EXCEPT ![r] =
                                   Send(q, Response(201, "", "File uploaded successfully",
                                                    NoRequired, 0))]
               ELSE /\ UNCHANGED task_attachments
                    /\ reqs' = [reqs EXCEPT ![r] = taskCatch(q)]
    /\ UNCHANGED <<store, now, anon, loggedOut, tasks, task_assignments, task_comments,
                   task_dependencies, notifications, time_entries>>

\* POST /tasks/:id/dependencies: INSERT INTO task_dependencies, then 200
DependencyInsert(r) ==
    /\ reqs[r].pc = "dependencyInsert"
    /\ \E ok \in BOOLEAN :
         LET q   == reqs[r]
             row == [task_id |-> q.params.id, depends_on_task_id |-> q.body.dependsOnTaskId]
         IN  IF ok /\ row \notin task_dependencies /\ TaskExists(row.task_id)
                   /\ TaskExists(row.depends_on_task_id)
               THEN /\ task_dependencies' = task_dependencies \cup {row}
                    /\ reqs' = [reqs EXCEPT ![r] =
                                   Send(q, Response(200, "", "Dependency added", NoRequired, 0))]
               ELSE /\ UNCHANGED task_dependencies
                    /\ reqs' = [reqs EXCEPT ![r] = taskCatch(q)]
    /\ UNCHANGED <<store, now, anon, loggedOut, tasks, task_assignments, task_comments,
                   task_attachments, notifications, time_entries>>

\* What comes in on the task routes: the id of a task of tenant 1 or of
\* tenant 2, users of both tenants to assign, a task to depend on, a file or
\* none.
TaskRequests ==
    { [route |-> "POST /tasks/:id/assign", params |-> [NoParams EXCEPT !.id = i],
       body |-> [NoBody EXCEPT !.userIds = l]] :
          i \in {1, 2}, l \in {<<>>, <<1>>, <<2, 3>>} }
    \cup { [route |-> "POST /tasks/:id/comments", params |-> [NoParams EXCEPT !.id = i],
            body |-> NoBody] : i \in {1, 2} }
    \cup { [route |-> "POST /tasks/:id/attachments", params |-> [NoParams EXCEPT !.id = i],
            body |-> [NoBody EXCEPT !.file = f]] : i \in {1, 2}, f \in BOOLEAN }
    \cup { [route |-> "POST /tasks/:id/dependencies", params |-> [NoParams EXCEPT !.id = i],
            body |-> [NoBody EXCEPT !.dependsOnTaskId = d]] : i \in {1, 2}, d \in {1, 3} }

\* A task request of an account that verifyToken has admitted, holding any
\* of the task permissions, reaches the gate of its route.
ReceiveTask(r) ==
    /\ reqs[r].pc = "idle"
    /\ Cardinality(task_comments) + Cardinality(task_attachments)
         + Cardinality(task_dependencies) + Cardinality(notifications) < MaxTaskRows
    /\ \E u \in UserIds, perms \in SUBSET TaskPermissions, x \in TaskRequests :
           reqs' = [reqs EXCEPT ![r] =
                       [AdmittedRequest(u, perms, RouteGates(x.route)[1])
                          EXCEPT !.route = x.route, !.params = x.params, !.body = x.body]]
    /\ UNCHANGED <<store, now, anon, loggedOut, work>>

TasksNext ==
    \/ \E r \in Reqs : ReceiveTask(r)
    \/ \E r \in Reqs : GateStep(r)
    \/ \E r \in Reqs : HandlerBegin(r)
    \/ \E r \in Reqs : AssignDelete(r)
    \/ \E r \in Reqs : AssignInsert(r)
    \/ \E r \in Reqs : AssignNotify(r)
    \/ \E r \in Reqs : CommentInsert(r)
    \/ \E r \in Reqs : AttachmentInsert(r)
    \/ \E r \in Reqs : DependencyInsert(r)
    \/ \E r \in Reqs : Finish(r)

\* Both tenants and their accounts are active; no request is in flight
TasksInit ==
    /\ tenants = { [id |-> t, status |-> "active"] : t \in TenantIds }
    /\ users = { [id |-> u, tenant_id |-> HomeTenant(u), email |-> u, status |-> "active"] :
                   u \in UserIds }
    /\ roles = SeedRoles
    /\ role_permissions = SeedRolePermissions
    /\ user_roles = SeedUserRoles({2})
    /\ audit_logs = {}
    /\ user_sessions = {}
    /\ now = 0
    /\ reqs = [r \in Reqs |-> IdleRequest]
    /\ anon = [a \in Anons |-> IdleAnon]
    /\ loggedOut = {}
    /\ SeedWork

\* Requests to the task routes by accounts of both tenants
SpecTasks == TasksInit /\ [][TasksNext]_vars

-----------------------------------------------------------------------------
(* Requests that run concurrently *)

\* Number of requests of one route in flight together
NumRacers == 2

Racers == 1..NumRacers

\* req.params.id and req.body.roleId of the role changes that race: account
\* 2 is given role 2 or role 4, both of its tenant
RaceParams == { [id |-> 2, roleId |-> k] : k \in {2, 4} }

\* The Admin of tenant 1 requests PUT /users/2/role
ReceiveRace(r) ==
    \E params \in RaceParams :
        Arrive(r, Header(TRUE, <<Bearer, Jwt("access", MaxNow + 1, 1)>>),
               "PUT /users/:id/role", params)

\* Every account holds one role (as registration leaves it): account 1
\* Admin, account 2 role 2, account 3 Member.
RoleRaceInit ==
    /\ tenants = { [id |-> t, status |-> "active"] : t \in TenantIds }
    /\ users = { [id |-> u, tenant_id |-> HomeTenant(u), email |-> u, status |-> "active"] :
                   u \in UserIds }
    /\ roles = SeedRoles
    /\ role_permissions = SeedRolePermissions
    /\ user_roles = SeedUserRoles({2})
    /\ audit_logs = {}
    /\ user_sessions = {}
    /\ now = 0
    /\ reqs = [r \in Racers |-> IdleRequest]
    /\ anon = [a \in Anons |-> IdleAnon]
    /\ loggedOut = {}
    /\ SeedWork

RoleRaceNext ==
    \/ \E r \in Racers : ReceiveRace(r)
    \/ \E r \in Racers : UserQuery(r)
    \/ \E r \in Racers : PermQuery(r)
    \/ \E r \in Racers : GateStep(r)
    \/ \E r \in Racers : HandlerBegin(r)
    \/ \E r \in Racers : RoleSelectUser(r)
    \/ \E r \in Racers : RoleSelectRole(r)
    \/ \E r \in Racers : RoleDelete(r)
    \/ \E r \in Racers : RoleInsert(r)
    \/ \E r \in Racers : RoleAudit(r)
    \/ \E r \in Racers : Finish(r)

\* Role changes of one user by requests in flight together
SpecRoleRace == RoleRaceInit /\ [][RoleRaceNext]_vars

\* Two clients register with the free address at the same time
RegisterRaceInit ==
    /\ tenants = { [id |-> t, status |-> "active"] : t \in TenantIds }
    /\ users = { [id |-> u, tenant_id |-> HomeTenant(u), email |-> u, status |-> "active"] :
                   u \in UserIds }
    /\ roles = SeedRoles
    /\ role_permissions = SeedRolePermissions
    /\ user_roles = SeedUserRoles({2})
    /\ audit_logs = {}
    /\ user_sessions = {}
    /\ now = 0
    /\ reqs = [r \in Reqs |-> IdleRequest]
    /\ anon = [a \in Racers |-> IdleAnon]
    /\ loggedOut = {}
    /\ SeedWork

RegisterRaceNext ==
    \/ \E a \in Racers : RegisterArrive(a)
    \/ \E a \in Racers : RegisterExisting(a)
    \/ \E a \in Racers : RegisterCommit(a)
    \/ \E a \in Racers : RegisterSession(a)
    \/ \E a \in Racers : AnonFinish(a)

\* Registrations in flight together
SpecRegisterRace == RegisterRaceInit /\ [][RegisterRaceNext]_vars

-----------------------------------------------------------------------------
(* Timers *)

\* Rows time_entries may hold before another timer request is taken
MaxEntries == 2

\* end_time of a time entry: NULL while the timer runs, then the time it
\* was stopped
NullTime == [isNull |-> TRUE, value |-> 0]

TimeAt(t) == [isNull |-> FALSE, value |-> t]

\* SELECT .. FROM time_entries WHERE user_id = ? AND end_time IS NULL
SelectRunning(userId) ==
    { x \in time_entries : x.user_id = userId /\ x.end_time.isNull }

\* POST /time/start: the query for a running timer of the caller
StartSelectActive(r) ==
    /\ reqs[r].pc = "startSelectActive"
    /\ \E ok \in BOOLEAN :
         LET q      == reqs[r]
             active == SelectRunning(q.user.id)
         IN  reqs' = [reqs EXCEPT ![r] =
                         IF ~ok THEN Send(q, ErrorResponse(500, "Failed to start timer"))
                         ELSE IF Cardinality(active) > 0
                             THEN Send(q, ErrorResponse(400, "Timer already running"))
                         ELSE [q EXCEPT !.pc = "startSelectTask"]]
    /\ UNCHANGED <<store, now, anon, loggedOut, work>>

\* POST /time/start: SELECT project_id FROM tasks WHERE id = ? AND tenant_id = ?
StartSelectTask(r) ==
    /\ reqs[r].pc = "startSelectTask"
    /\ \E ok \in BOOLEAN :
         LET q    == reqs[r]
             rows == { t \in tasks : t.id = q.body.taskId /\ t.tenant_id = q.user.tenantId }
         IN  reqs' = [reqs EXCEPT ![r] =
                         IF ~ok THEN Send(q, ErrorResponse(500, "Failed to start timer"))
                         ELSE IF rows = {}
                             THEN Send(q, ErrorResponse(404, "Task not found"))
                         ELSE [q EXCEPT !.projectId = (CHOOSE t \in rows : TRUE).project_id,
                                        !.pc = "startInsert"]]
    /\ UNCHANGED <<store, now, anon, loggedOut, work>>

\* POST /time/start: INSERT INTO time_entries (.., start_time) VALUES (..,
\* NOW()), then 201
StartInsert(r) ==
    /\ reqs[r].pc = "startInsert"
    /\ \E ok \in BOOLEAN :
         LET q   == reqs[r]
             row == [id |-> Cardinality(time_entries) + 1, tenant_id |-> q.user.tenantId,
                     user_id |-> q.user.id, task_id |-> q.body.taskId,
                     project_id |-> q.projectId, start_time |-> now, end_time |-> NullTime,
                     duration_minutes |-> 0]
         IN  IF ok /\ TaskExists(row.task_id) /\ UserExists(row.user_id)
               THEN /\ time_entries' = time_entries \cup {row}
                    /\ reqs' = [reqs EXCEPT ![r] =
                                   Send(q, Response(201, "", "Timer started", NoRequired, row.id))]
               ELSE /\ UNCHANGED time_entries
                    /\ reqs' = [reqs EXCEPT ![r] =
                                   Send(q, ErrorResponse(500, "Failed to start timer"))]
    /\ UNCHANGED <<store, now, anon, loggedOut, tasks, task_assignments, task_comments,
                   task_attachments, task_dependencies, notifications>>

\* POST /time/stop: the query for the running timer; entries[0] is any of
\* the rows it returns, and the duration is taken from the clock
StopSelect(r) ==
    /\ reqs[r].pc = "stopSelect"
    /\ \E ok \in BOOLEAN :
         LET q       == reqs[r]
             entries == SelectRunning(q.user.id)
         IN  IF ~ok
               THEN reqs' = [reqs EXCEPT ![r] =
                                Send(q, ErrorResponse(500, "Failed to stop timer"))]
               ELSE IF Cardinality(entries) = 0
                 THEN reqs' = [reqs EXCEPT ![r] = Send(q, ErrorResponse(400, "No active timer"))]
                 ELSE \E entry \in entries :
                          reqs' = [reqs EXCEPT ![r] =
                                      [q EXCEPT !.entryId = entry.id,
                                                !.duration = now - entry.start_time,
                                                !.pc = "stopUpdateEntry"]]
    /\ UNCHANGED <<store, now, anon, loggedOut, work>>

\* POST /time/stop: UPDATE time_entries SET end_time = NOW(),
\* duration_minutes = ? WHERE id = ?
StopUpdateEntry(r) ==
    /\ reqs[r].pc = "stopUpdateEntry"
    /\ \E ok \in BOOLEAN :
         LET q == reqs[r]
         IN  IF ok
               THEN /\ time_entries' =
                          { IF x.id = q.entryId
                                THEN [x EXCEPT !.end_time = TimeAt(now),
                                               !.duration_minutes = q.duration]
                                ELSE x : x \in time_entries }
                    /\ reqs' = [reqs EXCEPT ![r] = [q EXCEPT !.pc = "stopUpdateTask"]]
               ELSE /\ UNCHANGED time_entries
                    /\ reqs' = [reqs EXCEPT ![r] =
                                   Send(q, ErrorResponse(500, "Failed to stop timer"))]
    /\ UNCHANGED <<store, now, anon, loggedOut, tasks, task_assignments, task_comments,
                   task_attachments, task_dependencies, notifications>>

\* POST /time/stop: UPDATE tasks SET actual_hours = actual_hours + ? WHERE
\* id = (SELECT task_id FROM time_entries WHERE id = ?), then 200.
\* actual_hours is counted in the unit of the clock.
StopUpdateTask(r) ==
    /\ reqs[r].pc = "stopUpdateTask"
    /\ \E ok \in BOOLEAN :
         LET q       == reqs[r]
             taskIds == { x.task_id : x \in { y \in time_entries : y.id = q.entryId } }
         IN  IF ok
               THEN /\ tasks' = { IF t.id \in taskIds
                                      THEN [t EXCEPT !.actual_hours = @ + q.duration]
                                      ELSE t : t \in tasks }
                    /\ reqs' = [reqs EXCEPT ![r] =
                                   Send(q, Response(200, "", "Timer stopped", NoRequired,
                                                    q.duration))]
               ELSE /\ UNCHANGED tasks
                    /\ reqs' = [reqs EXCEPT ![r] =
                                   Send(q, ErrorResponse(500, "Failed to stop timer"))]
    /\ UNCHANGED <<store, now, anon, loggedOut, task_assignments, task_comments,
                   task_attachments, task_dependencies, notifications, time_entries>>

\* What comes in on the timer routes: a start for task 1 (of tenant 1) or
\* task 2 (of tenant 2), or a stop
TimerRequests ==
    { [route |-> "POST /time/start", body |-> [NoBody EXCEPT !.taskId = i]] : i \in {1, 2} }
    \cup { [route |-> "POST /time/stop", body |-> NoBody] }

\* A timer request of account 1, which verifyToken has admitted with
\* time.create or without it, reaches the gate of its route.
ReceiveTimer(r) ==
    /\ reqs[r].pc = "idle"
    /\ Cardinality(time_entries) < MaxEntries
    /\ \E perms \in SUBSET {"time.create"}, x \in TimerRequests :
           reqs' = [reqs EXCEPT ![r] =
                       [AdmittedRequest(1, perms, RouteGates(x.route)[1])
                          EXCEPT !.route = x.route, !.body = x.body]]
    /\ UNCHANGED <<store, now, anon, loggedOut, work>>

TimerRaceNext ==
    \/ \E r \in Racers : ReceiveTimer(r)
    \/ \E r \in Racers : GateStep(r)
    \/ \E r \in Racers : HandlerBegin(r)
    \/ \E r \in Racers : StartSelectActive(r)
    \/ \E r \in Racers : StartSelectTask(r)
    \/ \E r \in Racers : StartInsert(r)
    \/ \E r \in Racers : StopSelect(r)
    \/ \E r \in Racers : StopUpdateEntry(r)
    \/ \E r \in Racers : StopUpdateTask(r)
    \/ \E r \in Racers : Finish(r)
    \/ Tick

\* Timer requests of one account in flight together
SpecTimerRace == RoleRaceInit /\ [][TimerRaceNext]_vars

-----------------------------------------------------------------------------
(* Properties *)

\* Roles assigned to an account, and the names of the permissions of a role
RolesOf(userId) == { ur.role_id : ur \in { x \in user_roles : x.user_id = userId } }

PermissionsOfRole(roleId) ==
    { p.name : p \in { x \in permissions :
                         [role_id |-> roleId, permission_id |-> x.id] \in role_permissions } }

UnionOfRolePermissions(userId) == UNION { PermissionsOfRole(k) : k \in RolesOf(userId) }

\* The account exists with status 'active'
IsActiveUser(userId) == \E u \in users : u.id = userId /\ u.status = "active"

\* The account's tenant has status 'active'
InActiveTenant(userId) ==
    \E u \in users : /\ u.id = userId
                     /\ \E t \in tenants : t.id = u.tenant_id /\ t.status = "active"

\* The token is a jwt signed with the access-token secret
SignedForAccess(token) == token.form = "jwt" /\ token.key = "access"

\* Request r leaves position `pc` in this step
Leaves(r, pc) == reqs[r].pc = pc /\ reqs'[r].pc # pc

\* verifyToken has admitted the request: it called next() once and sent nothing
Admitted(q) == q.nextCalls = 1 /\ q.user.resolved

\* C1: an access token that verifies and is unexpired, for an active user of
\* an active tenant, is admitted once both lookups have returned, and
\* req.user.permissions is exactly the union of the permissions of the roles
\* assigned to the user.
C1_AdmitsWithUnionOfRolePermissions ==
    [][\A r \in Reqs :
         /\ ( /\ Leaves(r, "idle")
              /\ SignedForAccess(reqs'[r].token)
              /\ now < reqs'[r].token.exp )
            => /\ reqs'[r].pc = "userQuery"
               /\ reqs'[r].decoded.userId = reqs'[r].token.userId
         /\ ( /\ Leaves(r, "userQuery")
              /\ IsActiveUser(reqs[r].decoded.userId)
              /\ InActiveTenant(reqs[r].decoded.userId)
              /\ ~reqs'[r].lookupFailed )
            => /\ reqs'[r].pc = "permQuery"
               /\ reqs'[r].dbUser.id = reqs[r].decoded.userId
         /\ ( /\ Leaves(r, "permQuery")
              /\ ~reqs'[r].lookupFailed )
            => /\ Admitted(reqs'[r])
               /\ reqs'[r].sent = 0
               /\ reqs'[r].pc \in {"gate", "handler"}
               /\ reqs'[r].user.id = reqs[r].decoded.userId
               /\ reqs'[r].user.permissions = UnionOfRolePermissions(reqs[r].decoded.userId)
      ]_vars

\* An admitted principal whose permissions come from two roles that overlap
C1_Witness ==
    \E r \in Reqs :
        /\ Admitted(reqs[r])
        /\ reqs[r].user.id = 2
        /\ RolesOf(2) = {2, 4}
        /\ reqs[r].user.permissions = {"users.view", "users.edit", "settings.view"}

\* C2: a token that is structurally invalid or signed with another secret
\* than the access-token secret is rejected with 401 'Invalid token', and no
\* store query is issued for it.
C2_InvalidTokenRejectedBeforeStore ==
    \A r \in Reqs :
        ( /\ reqs[r].pc # "idle"
          /\ ~Falsy(reqs[r].token)
          /\ ~SignedForAccess(reqs[r].token) )
        => /\ reqs[r].pc = "done"
           /\ reqs[r].res = ErrorResponse(401, "Invalid token")
           /\ reqs[r].queries = 0
           /\ reqs[r].nextCalls = 0
           /\ ~reqs[r].handlerRan

\* A refresh token presented as bearer token has been rejected
C2_Witness ==
    \E r \in Reqs :
        /\ reqs[r].token.form = "jwt"
        /\ reqs[r].token.key = "refresh"
        /\ reqs[r].res = ErrorResponse(401, "Invalid token")

\* C3 as stated: a token whose expiry has passed is rejected with 401
\* 'Token expired' whatever its signature.
C3_ExpiredWhateverSignature ==
    [][\A r \in Reqs :
         ( /\ Leaves(r, "idle")
           /\ reqs'[r].token.form = "jwt"
           /\ now >= reqs'[r].token.exp )
         => reqs'[r].res = ErrorResponse(401, "Token expired")
      ]_vars

\* C3 amended: a token signed with the access-token secret whose expiry has
\* passed is rejected with 401 'Token expired'; an expired token signed with
\* another secret is rejected with 401 'Invalid token'.  Neither reaches the
\* store.
C3_ExpiredAfterSignature ==
    [][\A r \in Reqs :
         ( /\ Leaves(r, "idle")
           /\ reqs'[r].token.form = "jwt"
           /\ now >= reqs'[r].token.exp )
         => /\ reqs'[r].pc = "done"
            /\ reqs'[r].queries = 0
            /\ reqs'[r].res = IF reqs'[r].token.key = "access"
                                  THEN ErrorResponse(401, "Token expired")
                                  ELSE ErrorResponse(401, "Invalid token")
      ]_vars

\* An access token has been refused as expired
C3_Witness ==
    \E r \in Reqs :
        /\ SignedForAccess(reqs[r].token)
        /\ now >= reqs[r].token.exp
        /\ reqs[r].res = ErrorResponse(401, "Token expired")

\* C4: a request without bearer token (no Authorization header, or a header
\* without a second space-separated part) is rejected with 401 'Access token
\* required' before any token verification or store lookup.
C4_MissingTokenRejectedFirst ==
    \A r \in Reqs :
        ( /\ reqs[r].pc # "idle"
          /\ \/ ~reqs[r].headers.present
             \/ Len(reqs[r].headers.parts) < 2 )
        => /\ reqs[r].pc = "done"
           /\ reqs[r].res = ErrorResponse(401, "Access token required")
           /\ reqs[r].verified = 0
           /\ reqs[r].queries = 0
           /\ reqs[r].nextCalls = 0

\* A header with a single part has been refused
C4_Witness ==
    \E r \in Reqs :
        /\ reqs[r].headers.present
        /\ Len(reqs[r].headers.parts) = 1
        /\ reqs[r].pc = "done"

\* C5: with a valid access token whose userId maps to no user, or to a user
\* whose status is not 'active', the request is rejected with 401 'User not
\* found or inactive' once the lookup has returned, and is never admitted.
C5_MissingOrInactiveUserRejected ==
    [][\A r \in Reqs :
         ( /\ Leaves(r, "userQuery")
           /\ ~IsActiveUser(reqs[r].decoded.userId)
           /\ ~reqs'[r].lookupFailed )
         => /\ reqs'[r].pc = "done"
            /\ reqs'[r].res = ErrorResponse(401, "User not found or inactive")
            /\ reqs'[r].nextCalls = 0
            /\ ~reqs'[r].user.resolved
      ]_vars

\* The token of an invited account has been refused
C5_Witness ==
    \E r \in Reqs :
        /\ reqs[r].res = ErrorResponse(401, "User not found or inactive")
        /\ \E u \in users : u.id = reqs[r].decoded.userId /\ u.status = "invited"

\* C6: with a valid access token of an active user whose tenant is not
\* 'active', the request is rejected with 403 'Organization is suspended';
\* a missing or inactive user gets 401 and never 403, whatever the status of
\* the tenant (the tenant is looked at after the user).
C6_SuspendedTenantAfterUser ==
    [][\A r \in Reqs :
         ( Leaves(r, "userQuery") /\ ~reqs'[r].lookupFailed )
         => /\ ( IsActiveUser(reqs[r].decoded.userId)
                 /\ ~InActiveTenant(reqs[r].decoded.userId) )
               => /\ reqs'[r].pc = "done"
                  /\ reqs'[r].res = ErrorResponse(403, "Organization is suspended")
                  /\ reqs'[r].nextCalls = 0
            /\ ~IsActiveUser(reqs[r].decoded.userId)
               => /\ reqs'[r].res.status = 401
                  /\ reqs'[r].res.error # "Organization is suspended"
      ]_vars

\* An active user of a suspended tenant has been refused with 403
C6_Witness ==
    \E r \in Reqs :
        /\ reqs[r].res = ErrorResponse(403, "Organization is suspended")
        /\ IsActiveUser(reqs[r].decoded.userId)
        /\ \E t \in tenants : t.id = reqs[r].dbUser.tenant_id /\ t.status = "suspended"

\* C7: a store lookup of verifyToken that fails ends the request with 500
\* 'Authentication failed', not admitted; and verifyToken answers 500 in no
\* other case.
C7_Only500OnLookupFailure ==
    \A r \in Reqs :
        /\ reqs[r].lookupFailed
           => /\ reqs[r].pc = "done"
              /\ reqs[r].res = ErrorResponse(500, "Authentication failed")
              /\ reqs[r].nextCalls = 0
              /\ ~reqs[r].handlerRan
        /\ ( \/ reqs[r].res.error = "Authentication failed"
             \/ (reqs[r].res.status = 500 /\ ~reqs[r].handlerRan) )
           => reqs[r].lookupFailed

\* The permission lookup has failed
C7_Witness ==
    \E r \in Reqs :
        /\ reqs[r].lookupFailed
        /\ reqs[r].queries = 2
        /\ reqs[r].res.status = 500

\* The gate the request went through first, once it is through
PassedGate(q, kind) == q.pc # "gate" /\ q.layer >= 1 /\ Len(q.gates) >= 1 /\ q.gates[1].kind = kind

\* C8: checkPermission(name) lets the request proceed iff name is in the
\* principal's permission set; otherwise it rejects with 403 'Insufficient
\* permissions' and required = name.
C8_CheckPermissionIffMember ==
    \A r \in Reqs :
        PassedGate(reqs[r], "permission")
        => LET q == reqs[r]
               name == q.gates[1].names[1]
           IN  IF name \in q.user.permissions
                   THEN q.pc = "handler" /\ q.sent = 0 /\ q.res = NoResponse
                   ELSE /\ q.pc = "done"
                        /\ q.sent = 1
                        /\ q.res.status = 403
                        /\ q.res.error = "Insufficient permissions"
                        /\ q.res.required = [kind |-> "name", names |-> <<name>>]

\* A principal holding other permissions than the required one is refused
C8_Witness ==
    \E r \in Reqs :
        /\ PassedGate(reqs[r], "permission")
        /\ reqs[r].gates[1].names[1] = "users.edit"
        /\ reqs[r].user.permissions = {"users.view", "settings.view"}
        /\ reqs[r].res.status = 403

\* C9: checkAnyPermission(names...) lets the request proceed iff at least
\* one of the names is in the principal's permission set; otherwise, also
\* for an empty list, it rejects with 403 and required = the whole list.
C9_CheckAnyPermissionIffSome ==
    \A r \in Reqs :
        PassedGate(reqs[r], "any")
        => LET q == reqs[r]
               names == q.gates[1].names
           IN  IF { i \in DOMAIN names : names[i] \in q.user.permissions } # {}
                   THEN q.pc = "handler" /\ q.sent = 0 /\ q.res = NoResponse
                   ELSE /\ q.pc = "done"
                        /\ q.sent = 1
                        /\ q.res.status = 403
                        /\ q.res.error = "Insufficient permissions"
                        /\ q.res.required = [kind |-> "list", names |-> names]

\* A principal holding the second of two names only goes through
C9_Witness ==
    \E r \in Reqs :
        /\ PassedGate(reqs[r], "any")
        /\ reqs[r].gates[1].names = <<"users.edit", "users.view">>
        /\ reqs[r].user.permissions = {"users.view"}
        /\ reqs[r].pc = "handler"

\* The gate lets the permission set through
GateSatisfied(gate, held) ==
    IF gate.kind = "permission" THEN gate.names[1] \in held
    ELSE \E i \in DOMAIN gate.names : gate.names[i] \in held

\* verifyToken or a gate has answered the request
AuthFailure(q) ==
    \/ q.res.status \in {401, 403}
    \/ q.res.error = "Authentication failed"

\* C10: a handler body runs only after verifyToken has admitted the request
\* and every gate of its route has passed; an authentication or authorization
\* failure ends the request before the handler runs, and no handler runs
\* with an unresolved principal.
C10_HandlerOnlyBehindTheGates ==
    \A r \in Reqs :
        LET q == reqs[r]
        IN  /\ (q.handlerRan \/ q.pc \in {"handler", "readSelect"})
               => /\ Admitted(q)
                  /\ q.layer = Len(q.gates) + 1
                  /\ \A i \in DOMAIN q.gates : GateSatisfied(q.gates[i], q.user.permissions)
                  /\ ~AuthFailure(q)
            /\ AuthFailure(q) => (q.pc = "done" /\ ~q.handlerRan /\ q.sent = 1)

\* The handler of a gated route has run
C10_Witness ==
    \E r \in Reqs :
        /\ reqs[r].handlerRan
        /\ reqs[r].route = "GET /tenants/audit-logs"
        /\ reqs[r].res.status = 200

\* Request a leaves position `pc` on an anonymous route in this step
AnonLeaves(a, pc) == anon[a].pc = pc /\ anon'[a].pc # pc

\* The refresh request a answers with a new access token in this step
Mints(a) ==
    /\ anon[a].route \in {"", "POST /auth/refresh-token"}
    /\ anon'[a].route = "POST /auth/refresh-token"
    /\ anon[a].res.accessToken = Undefined
    /\ anon'[a].res.accessToken # Undefined

\* C11: the steps of verifyToken, checkPermission and checkAnyPermission
\* leave every table as it is, whether they admit the request or reject it.
C11_AuthorizationPhaseReadOnly ==
    [][\A r \in Reqs :
         ( /\ reqs[r].pc \in {"idle", "userQuery", "permQuery", "gate"}
           /\ reqs'[r] # reqs[r] )
         => UNCHANGED store
      ]_vars

\* A request has been refused by its gate in a store that other requests
\* have changed
C11_Witness ==
    \E r \in Reqs :
        /\ reqs[r].res.status = 403
        /\ reqs[r].res.error = "Insufficient permissions"
        /\ user_sessions # SeedSessions

\* C12: POST /auth/refresh-token answers with a new access token only if,
\* when its query runs, a session row holds the presented token with
\* is_active = TRUE and expires_at in the future; otherwise it rejects and
\* returns no access token.
C12_RefreshOnlyWithValidSession ==
    [][\A a \in Anons :
         /\ Mints(a)
            => /\ anon[a].pc = "refreshSelect"
               /\ anon'[a].res.status = 200
               /\ \E x \in user_sessions :
                     /\ x.refresh_token = anon[a].body.refreshToken
                     /\ x.is_active
                     /\ x.expires_at > now
         /\ ( /\ anon'[a].route = "POST /auth/refresh-token"
              /\ anon'[a] # anon[a]
              /\ anon'[a].pc = "done"
              /\ ~Mints(a) )
            => /\ anon'[a].res.status \in {400, 401, 500}
               /\ anon'[a].res.accessToken = Undefined
      ]_vars

\* A refresh has been answered with an access token
C12_Witness ==
    \E a \in Anons :
        /\ anon[a].route = "POST /auth/refresh-token"
        /\ anon[a].res.status = 200
        /\ anon[a].res.accessToken.key = "access"

\* C13 as stated: once POST /auth/logout with a refresh token has completed,
\* no later POST /auth/refresh-token with that token is answered with an
\* access token.
C13_NoRefreshAfterLogout ==
    [][\A a \in Anons :
         ( /\ AnonLeaves(a, "refreshSelect")
           /\ anon[a].body.refreshToken \in loggedOut )
         => /\ anon'[a].res.status # 200
            /\ anon'[a].res.accessToken = Undefined
      ]_vars

\* C14 as stated: when PUT /users/:id/status with 'inactive' completes, every
\* session row of that user has is_active = FALSE.
C14_NoActiveSessionAfterDeactivation ==
    [][\A r \in Reqs :
         ( /\ Leaves(r, "statusAudit")
           /\ reqs[r].body.status = "inactive"
           /\ reqs'[r].res.status = 200 )
         => \A x \in user_sessions' : x.user_id = reqs[r].params.id => ~x.is_active
      ]_vars

\* C15: DELETE /auth/sessions/:id deactivates the named session only when it
\* belongs to the authenticated user; a session of another user, and every
\* other row, stay as they are.
C15_DeleteSessionScopedToOwner ==
    [][\A r \in Reqs :
         Leaves(r, "sessionUpdate")
         => LET own == { x \in user_sessions :
                           x.id = reqs[r].params.id /\ x.user_id = reqs[r].user.id }
            IN  /\ own = {} => user_sessions' = user_sessions
                /\ reqs'[r].res.status = 200
                   => user_sessions' = (user_sessions \ own)
                                          \cup { [x EXCEPT !.is_active = FALSE] : x \in own }
                /\ reqs'[r].res.status # 200 => user_sessions' = user_sessions
      ]_vars

\* The Admin has asked to terminate the session of account 2, has been
\* answered 200, and the session is still active
C15_Witness ==
    \E r \in Reqs :
        /\ reqs[r].route = "DELETE /auth/sessions/:id"
        /\ reqs[r].res.status = 200
        /\ reqs[r].user.id = 1
        /\ reqs[r].params.id = 1
        /\ \E x \in user_sessions : x.id = 1 /\ x.user_id = 2 /\ x.is_active

\* C16 as stated: the is_active flag of a session changes only in a step of
\* a request authenticated as the owner of the session, or of the
\* deactivation of the owner by PUT /users/:id/status.
C16_SessionChangedByOwnerOrAdminOnly ==
    [][\A x \in user_sessions, y \in user_sessions' :
         (x.id = y.id /\ x.is_active # y.is_active)
         => \E r \in Reqs :
               /\ reqs'[r] # reqs[r]
               /\ \/ reqs[r].user.resolved /\ reqs[r].user.id = x.user_id
                  \/ /\ reqs[r].pc = "statusRevoke"
                     /\ reqs[r].params.id = x.user_id
      ]_vars

\* C17: the access token POST /auth/refresh-token answers with carries the
\* userId and the tenantId of the refresh token it was given.
C17_RefreshKeepsPayload ==
    [][\A a \in Anons :
         Mints(a)
         => /\ anon'[a].res.accessToken.form = "jwt"
            /\ anon'[a].res.accessToken.key = "access"
            /\ anon'[a].res.accessToken.userId = anon[a].body.refreshToken.userId
            /\ anon'[a].res.accessToken.tenantId = anon[a].body.refreshToken.tenantId
      ]_vars

\* The refresh token of a session that a login of this run created has been
\* exchanged
C17_Witness ==
    \E a \in Anons :
        /\ anon[a].route = "POST /auth/refresh-token"
        /\ anon[a].res.status = 200
        /\ anon[a].res.accessToken.userId = 2
        /\ anon[a].res.accessToken.tenantId = 1
        /\ \E x \in user_sessions :
              x.id = 3 /\ x.refresh_token = anon[a].body.refreshToken /\ x.expires_at > RefreshLife

\* C18: a refresh token presented as bearer token is rejected with 401
\* 'Invalid token' and never admitted; an access token presented to POST
\* /auth/refresh-token is rejected with 401 and yields no access token.
C18_TokenKindsNotInterchangeable ==
    /\ \A r \in Reqs :
          ( /\ reqs[r].pc # "idle"
            /\ reqs[r].token.form = "jwt"
            /\ reqs[r].token.key = "refresh" )
          => /\ reqs[r].pc = "done"
             /\ reqs[r].res = ErrorResponse(401, "Invalid token")
             /\ ~Admitted(reqs[r])
             /\ ~reqs[r].handlerRan
    /\ \A a \in Anons :
          ( /\ anon[a].route = "POST /auth/refresh-token"
            /\ anon[a].body.refreshToken.form = "jwt"
            /\ anon[a].body.refreshToken.key = "access" )
          => /\ anon[a].pc = "done"
             /\ anon[a].res = AuthError(401, "Invalid refresh token")

\* An access token has been refused by POST /auth/refresh-token while a
\* request carrying a refresh token as bearer has been refused too
C18_Witness ==
    /\ \E a \in Anons :
          /\ anon[a].body.refreshToken.key = "access"
          /\ anon[a].res.status = 401
    /\ \E r \in Reqs :
          /\ reqs[r].token.key = "refresh"
          /\ reqs[r].res.status = 401

UserOf(ur) == { u \in users : u.id = ur.user_id }

RoleOf(ur) == { k \in roles : k.id = ur.role_id }

\* C20: in every reachable state each user_roles row links a user and a role
\* of the same tenant, and the permissions the permission lookup gives a
\* principal come from roles of the principal's tenant only; registration,
\* role creation, role update and PUT /users/:id/role, requested from any
\* tenant, keep it so.
C20_AssignmentsWithinOneTenant ==
    /\ [](\A ur \in user_roles :
             /\ UserOf(ur) # {}
             /\ RoleOf(ur) # {}
             /\ \A u \in UserOf(ur), k \in RoleOf(ur) : u.tenant_id = k.tenant_id)
    /\ [][\A r \in Reqs :
            ( Leaves(r, "permQuery") /\ ~reqs'[r].lookupFailed )
            => reqs'[r].user.permissions =
                   UNION { PermissionsOfRole(k.id) :
                             k \in { x \in roles : /\ x.id \in RolesOf(reqs'[r].user.id)
                                                   /\ x.tenant_id = reqs'[r].user.tenantId } }
         ]_vars

\* A tenant has registered, a custom role has been created, and PUT
\* /users/:id/role has moved account 2 from role 2 to role 4
C20_Witness ==
    /\ \E ur \in user_roles : ur.user_id = 5
    /\ \E k \in roles : ~k.is_system_role /\ k \notin SeedRoles
    /\ RolesOf(2) = {4}
    /\ \E row \in audit_logs : row.action = "update_role" /\ row.entity_id = 2

\* The rows a revocation would change: active, with the token given to
\* logout, or with the id given to DELETE /auth/sessions/:id and owned by
\* the caller
ActiveWithToken(token) == { x \in user_sessions : x.refresh_token = token /\ x.is_active }

ActiveOwnedWithId(id, userId) ==
    { x \in user_sessions : x.id = id /\ x.user_id = userId /\ x.is_active }

C22_RefreshIffTokenAndSession ==
    [][/\ \A a \in Anons :
            /\ ( AnonLeaves(a, "idle") /\ anon'[a].route = "POST /auth/refresh-token" )
               => ( anon'[a].pc = "refreshSelect"
                    <=> jwt_verify(anon'[a].body.refreshToken, "refresh", now).name = "" )
            /\ ( AnonLeaves(a, "refreshSelect") /\ anon'[a].res.status # 500 )
               => /\ anon'[a].res.status = 200
                     <=> SelectValidSessions(anon[a].body.refreshToken, now) # {}
                  /\ anon'[a].res.status = 200
                     <=> ( /\ anon'[a].res.accessToken.form = "jwt"
                           /\ anon'[a].res.accessToken.key = "access" )
       /\ \A r \in Reqs :
            ( /\ Leaves(r, "userQuery")
              /\ ~reqs'[r].lookupFailed
              /\ IsActiveUser(reqs[r].decoded.userId)
              /\ ~InActiveTenant(reqs[r].decoded.userId) )
            => /\ reqs'[r].res = ErrorResponse(403, "Organization is suspended")
               /\ ~Admitted(reqs'[r])
      ]_vars

\* A refresh has minted an access token for account 3, whose tenant is
\* suspended, and the request that carried that token has been refused
\* with 403
C22_Witness ==
    \E a \in Anons, r \in Reqs :
        /\ anon[a].route = "POST /auth/refresh-token"
        /\ anon[a].res.status = 200
        /\ anon[a].res.accessToken.userId = 3
        /\ ~InActiveTenant(3)
        /\ reqs[r].token = anon[a].res.accessToken
        /\ reqs[r].res = ErrorResponse(403, "Organization is suspended")

\* Every session of the user has been revoked
SessionsRevoked(userId) ==
    /\ \E x \in user_sessions : x.user_id = userId
    /\ \A x \in user_sessions : x.user_id = userId => ~x.is_active

AllAnswered200 == \A r \in DOMAIN reqs : reqs[r].pc = "done" /\ reqs[r].res.status = 200

\* C24: once the role changes have completed, every user has exactly one
\* role assignment, also when two role changes of the same user have run
\* concurrently.
C24_ExactlyOneRolePerUser ==
    AllAnswered200 => \A u \in users : Cardinality(RolesOf(u.id)) = 1

\* The role_permissions rows of a role, in a table
RowsOfRole(table, roleId) == { x \in table : x.role_id = roleId }

\* C25: PUT /roles/:id on a system role of the caller's tenant is rejected
\* with 400 'Cannot modify system role' (the store answering the SELECT), and
\* no step changes the row of a system role or its permission assignments,
\* which stay what registration gave: every permission for Admin, none for
\* the other system roles.
C25_SystemRolesCannotBeEdited ==
    [][/\ \A r \in Reqs :
            ( /\ Leaves(r, "updateRoleSelect")
              /\ reqs'[r].res.status # 500
              /\ \E k \in roles : /\ k.id = reqs[r].params.id
                                  /\ k.tenant_id = reqs[r].user.tenantId
                                  /\ k.is_system_role )
            => /\ reqs'[r].res = ErrorResponse(400, "Cannot modify system role")
               /\ reqs'[r].pc = "done"
       /\ \A k \in roles :
            k.is_system_role
            => /\ k \in roles'
               /\ RowsOfRole(role_permissions', k.id) = RowsOfRole(role_permissions, k.id)
               /\ PermissionsOfRole(k.id) =
                      IF k.name = "Admin" THEN { p.name : p \in permissions } ELSE {}
      ]_vars

\* The Admin of tenant 1 has been refused the edit of its own system role
\* after a custom role had been renamed and given other permissions
C25_Witness ==
    \E r \in Reqs :
        /\ reqs[r].route = "PUT /roles/:id"
        /\ reqs[r].params.id = 1
        /\ reqs[r].user.id = 1
        /\ reqs[r].res = ErrorResponse(400, "Cannot modify system role")
        /\ \E k \in roles : k.id = 2 /\ k.name = "Lead"
        /\ PermissionsOfRole(2) = {"settings.view"}

\* C29: no two users share an email, and a registration with an email that
\* belongs to a user is rejected with 400 'Email already registered' and
\* creates no tenant, role or user, also when two registrations with the same
\* email run concurrently.
C29_RegisteredEmailsUnique ==
    \A u1, u2 \in users : u1.email = u2.email => u1.id = u2.id

\* Rows of `table` that hang on a task of a tenant other than `tenantId`
ForeignRows(table, tenantId) ==
    { x \in table : \E t \in tasks : t.id = x.task_id /\ t.tenant_id # tenantId }

\* C26: a request authenticated for tenant A never creates, modifies or
\* deletes assignments, comments, attachments or dependencies of a task that
\* belongs to another tenant: no step of a task request changes the rows of
\* those four tables that hang on a task of a tenant other than
\* req.user.tenantId.
C26_TaskRoutesKeepTenantIsolation ==
    [][\A r \in DOMAIN reqs :
          reqs[r].user.resolved =>
              LET tenantId == reqs[r].user.tenantId
              IN  /\ ForeignRows(task_assignments', tenantId)
                        = ForeignRows(task_assignments, tenantId)
                  /\ ForeignRows(task_comments', tenantId)
                        = ForeignRows(task_comments, tenantId)
                  /\ ForeignRows(task_attachments', tenantId)
                        = ForeignRows(task_attachments, tenantId)
                  /\ ForeignRows(task_dependencies', tenantId)
                        = ForeignRows(task_dependencies, tenantId)]_vars

\* C30: a user never has more than one running timer: in every reachable
\* state at most one time entry per user has end_time NULL, also when two
\* POST /time/start requests of the same user run concurrently.
C30_AtMostOneRunningTimer ==
    \A u \in users : Cardinality(SelectRunning(u.id)) <= 1

\* What a request has done when it stands at `pc`: the token extracted and
\* verified once before the user query, the principal's row loaded before the
\* permission query, next() called once and req.user set before a gate, every
\* gate of the route passed before the handler, and nothing sent on the way.
StepsDone(q) ==
    /\ q.verified <= 1 /\ q.queries <= 2 /\ q.nextCalls <= 1 /\ q.sent <= 1
    /\ q.layer <= Len(q.gates) + 1
    /\ q.verified = 1 => ~Falsy(q.token)
    /\ q.queries >= 1 => q.verified = 1
    /\ q.queries = 2 => q.dbUser # NoUserRow
    /\ q.nextCalls = 1 <=> q.user.resolved
    /\ q.nextCalls = 1 => q.queries = 2 /\ ~q.lookupFailed
    /\ q.layer >= 1 <=> q.nextCalls = 1
    /\ q.pc = "userQuery" => q.queries = 1 /\ q.sent = 0
    /\ q.pc = "permQuery" => q.queries = 2 /\ q.nextCalls = 0 /\ q.sent = 0
    /\ q.pc = "gate" => q.nextCalls = 1 /\ q.layer \in 1..Len(q.gates) /\ q.sent = 0
    /\ q.pc = "handler" => q.nextCalls = 1 /\ q.layer = Len(q.gates) + 1 /\ q.sent = 0
    /\ q.handlerRan => q.nextCalls = 1 /\ q.layer = Len(q.gates) + 1
    /\ q.pc = "done" => q.sent = 1
    /\ (q.pc = "done" /\ ~q.handlerRan) => q.res.status \in {401, 403, 500}

\* The steps a request may take from one position to the next
StepInOrder(q, q1) ==
    CASE q.pc = "idle"      -> q1.pc \in {"userQuery", "done"}
      [] q.pc = "userQuery" -> q1.pc \in {"permQuery", "done"} /\ q1.verified = q.verified
      [] q.pc = "permQuery" -> /\ q1.pc \in {"gate", "handler", "done"}
                               /\ q1.verified = q.verified /\ q1.queries = q.queries
                               /\ q1.pc = "handler" => q.gates = <<>>
      [] q.pc = "gate"      -> /\ q1.pc \in {"gate", "handler", "done"}
                               /\ q1.verified = q.verified /\ q1.queries = q.queries
                               /\ q1.nextCalls = q.nextCalls /\ q1.user = q.user
                               /\ q1.pc # "done" => q1.layer = q.layer + 1
                               /\ q1.pc = "done" => q1.res.status = 403
      [] OTHER              -> q1.pc # "gate" /\ q1.pc # "userQuery" /\ q1.pc # "permQuery"

\* C27: every request entering verifyToken followed by a permission gate
\* reaches exactly one terminal outcome, admitted (next called once, no
\* rejection sent) or rejected with exactly one response, and its steps come
\* in the order token extracted, token verified, principal loaded, permission
\* checked, none skipped and none repeated.
C27_OneOutcomeAndStepsInOrder ==
    /\ [](\A r \in DOMAIN reqs : StepsDone(reqs[r]))
    /\ [][\A r \in DOMAIN reqs :
             reqs'[r] # reqs[r] => StepInOrder(reqs[r], reqs'[r])]_vars

\* A request on a gated route has gone through every step and been answered
\* by its handler
C27_Witness ==
    \E r \in DOMAIN reqs :
        /\ reqs[r].gates # <<>>
        /\ reqs[r].pc = "done"
        /\ reqs[r].handlerRan
        /\ reqs[r].nextCalls = 1
        /\ reqs[r].verified = 1
        /\ reqs[r].queries = 2
        /\ reqs[r].res.status = 200

\* C28: session revocation is permanent: once a session row has is_active =
\* FALSE, no operation (login, registration, refresh, reactivation of the user
\* through PUT /users/:id/status, logout, session deletion) sets it back to
\* TRUE.
C28_RevocationIsPermanent ==
    [][\A x \in user_sessions :
          ~x.is_active => \A y \in user_sessions' : y.id = x.id => ~y.is_active]_vars

\* Account 2 has been reactivated while a session of its own is revoked
C28_Witness ==
    \E r \in DOMAIN reqs, x \in user_sessions :
        /\ reqs[r].route = "PUT /users/:id/status"
        /\ reqs[r].res.message = "User activated successfully"
        /\ reqs[r].params.id = x.user_id
        /\ ~x.is_active
        /\ \E u \in users : u.id = x.user_id /\ u.status = "active"

====
